---- MODULE Spec2Model ----
(***************************************************************************)
(* A model of the bindle helper packages: uploads (SaveUploadedFile, alone *)
(* and two calls at once, SaveMultipleFormFiles), strutil (FormatFilename, *)
(* Truncate, StripHTML), random (Generate) and jsonx (mergeOptions,        *)
(* DecodeJSON, DecodeJSONFromRequest, EncodeJSON, the response helpers).   *)
(*                                                                         *)
(* Strings are sequences of one-character strings, so that length, case    *)
(* folding, suffixes and the regular-expression rewrites of FormatFilename *)
(* are computed, not assumed.  A nil pointer / nil slice is None (<<>>), a *)
(* non-nil one is Some(x) (<<x>>).                                         *)
(***************************************************************************)
EXTENDS Integers, Sequences, FiniteSets, TLC

VARIABLES
    file,          \* uploads: the *multipart.FileHeader of the running call
    opts,          \* uploads: the *FileUploadOptions argument (IsNil for nil)
    pc,            \* uploads: position of the running SaveUploadedFile call
    steps,         \* uploads: the steps the running call has executed, in order
    ext,           \* uploads: local ext
    destFileName,  \* uploads: local destFileName
    destPath,      \* uploads: local destPath
    mimeType,      \* uploads: local mimeType (sniffed)
    srcRead,       \* uploads: bytes read from the source stream by this call
    dirs,          \* filesystem: the directories that exist
    disk,          \* filesystem: path -> [Kind, Len] of each regular file
    ret,           \* uploads: returned *SavedFile (None while running / nil)
    err,           \* uploads: returned error ("" is nil)
    files,         \* batch: r.MultipartForm.File[fieldName]
    bi,            \* batch: index of the file being saved
    bpc,           \* batch: position of SaveMultipleFormFiles
    savedFiles,    \* batch: the savedFiles slice
    berr,          \* batch: returned error ("" is nil)
    handled,       \* batch: Some(paths this call saved before the failure just handled)
    jcall,         \* jsonx: the last call (operation and arguments)
    jres,          \* jsonx: its outcome
    w,             \* jsonx: the http.ResponseWriter a response helper acts on
    rpc,           \* jsonx: position of the running response helper
    scall,         \* strutil: the running call (function, arguments, loop state)
    sres,          \* strutil: its outcome
    shared,        \* race: the regular file at the path two uploads share
    procs,         \* race: the two concurrent SaveUploadedFile calls
    rcall,         \* random: the running Generate call (length, position)
    rres           \* random: its outcome

vars == <<file, opts, pc, steps, ext, destFileName, destPath, mimeType, srcRead,
          dirs, disk, ret, err, files, bi, bpc, savedFiles, berr, handled,
          jcall, jres, w, rpc, scall, sres, shared, procs, rcall, rres>>

saveVars == <<file, opts, pc, steps, ext, destFileName, destPath, mimeType,
              srcRead, dirs, disk, ret, err>>
batchVars == <<files, bi, bpc, savedFiles, berr, handled>>
jsonVars == <<jcall, jres>>
respVars == <<w, rpc>>
strVars == <<scall, sres>>
raceVars == <<shared, procs>>
randVars == <<rcall, rres>>

None == <<>>
Some(x) == <<x>>

----------------------------------------------------------------------------
(* Bounds *)

\* longest client filename of a SaveUploadedFile call in Spec
MaxSaveNameLen == 3
\* longest client filename in SpecName (filename derivation)
MaxNameLen == 3
\* largest MaxSize of a caller's options; declared sizes range to one above it
MaxLimit == 1
\* most files of one form field in SpecBatch
MaxBatch == 3
\* longest request stream (in characters) given to DecodeJSON
MaxStream == 3
\* longest input string of FormatFilename and Truncate in SpecStrutil
MaxStrLen == 5
\* most pieces (entities, tags, text) of an input of StripHTML
MaxPieces == 3
\* most chunks (writes of io.Copy) of one upload in SpecRace
MaxChunks == 2
\* longest string requested from random.Generate in SpecRandom
MaxRandLen == 2

----------------------------------------------------------------------------
(* Strings *)

UpperLetters == <<"A","B","C","D","E","F","G","H","I","J","K","L","M",
                  "N","O","P","Q","R","S","T","U","V","W","X","Y","Z">>
LowerLetters == <<"a","b","c","d","e","f","g","h","i","j","k","l","m",
                  "n","o","p","q","r","s","t","u","v","w","x","y","z">>

ToLowerChar(c) ==
    IF \E i \in 1..26 : UpperLetters[i] = c
    THEN LowerLetters[CHOOSE i \in 1..26 : UpperLetters[i] = c]
    ELSE c

\* strings.ToLower (ASCII)
ToLower(s) == [i \in 1..Len(s) |-> ToLowerChar(s[i])]

\* strings.EqualFold (ASCII)
EqualFold(s, t) == ToLower(s) = ToLower(t)

HasPrefix(s, p) == Len(p) <= Len(s) /\ SubSeq(s, 1, Len(p)) = p
HasSuffix(s, p) == Len(p) <= Len(s) /\ SubSeq(s, Len(s) - Len(p) + 1, Len(s)) = p

\* strings.TrimSuffix
TrimSuffix(s, suf) ==
    IF HasSuffix(s, suf) THEN SubSeq(s, 1, Len(s) - Len(suf)) ELSE s

\* the strings of length lo..hi over an alphabet
StringsOver(alphabet, lo, hi) ==
    UNION {[1..n -> alphabet] : n \in lo..hi}

\* filepath.Ext: the suffix beginning at the final dot of the final path
\* element; empty when that element has no dot
Ext(path) ==
    LET dotAt == {i \in 1..Len(path) :
                     /\ path[i] = "."
                     /\ \A j \in i..Len(path) : path[j] # "/"
                     /\ \A j \in (i+1)..Len(path) : path[j] # "."}
    IN IF dotAt = {} THEN <<>>
       ELSE SubSeq(path, CHOOSE i \in dotAt : TRUE, Len(path))

\* strings.ReplaceAll(s, " ", "_")
SpacesToUnderscores(s) == [i \in 1..Len(s) |-> IF s[i] = " " THEN "_" ELSE s[i]]

\* the character class [\\/:*?"<>|] of FormatFilename
UnsafeChars == {"\\", "/", ":", "*", "?", "\"", "<", ">", "|"}

RECURSIVE StripUnsafe(_)
StripUnsafe(s) ==
    IF s = <<>> THEN <<>>
    ELSE IF Head(s) \in UnsafeChars THEN StripUnsafe(Tail(s))
         ELSE <<Head(s)>> \o StripUnsafe(Tail(s))

\* regexp `_+` replaced by "_"
RECURSIVE CollapseUnderscores(_)
CollapseUnderscores(s) ==
    IF Len(s) < 2 THEN s
    ELSE IF s[1] = "_" /\ s[2] = "_" THEN CollapseUnderscores(Tail(s))
         ELSE <<Head(s)>> \o CollapseUnderscores(Tail(s))

RECURSIVE TrimLeft(_, _)
TrimLeft(s, c) ==
    IF s # <<>> /\ Head(s) = c THEN TrimLeft(Tail(s), c) ELSE s

RECURSIVE TrimRight(_, _)
TrimRight(s, c) ==
    IF s # <<>> /\ s[Len(s)] = c THEN TrimRight(SubSeq(s, 1, Len(s) - 1), c) ELSE s

\* strings.Trim(s, "_")
Trim(s, c) == TrimRight(TrimLeft(s, c), c)

FallbackName == <<"f", "i", "l", "e">>

\* FormatFilename that collapses underscores before it strips characters
FormatFilenameStripLate(input) ==
    LET output == Trim(StripUnsafe(CollapseUnderscores(
                          SpacesToUnderscores(ToLower(input)))), "_")
    IN IF output = <<>> THEN FallbackName ELSE output

\* strutil.FormatFilename
FormatFilename(input) ==
    LET output == Trim(CollapseUnderscores(StripUnsafe(
                          SpacesToUnderscores(ToLower(input)))), "_")
    IN IF output = <<>> THEN FallbackName ELSE output

----------------------------------------------------------------------------
(* random.Generate *)

chars == <<"a","b","c","d","e","f","g","h","i","j","k","l","m",
           "n","o","p","q","r","s","t","u","v","w","x","y","z",
           "A","B","C","D","E","F","G","H","I","J","K","L","M",
           "N","O","P","Q","R","S","T","U","V","W","X","Y","Z",
           "0","1","2","3","4","5","6","7","8","9">>

\* bytes[i] = chars[b % byte(charLen)]
Generate(bytes) == [i \in 1..Len(bytes) |-> chars[(bytes[i] % Len(chars)) + 1]]

\* Length of the random suffix requested by SaveUploadedFile
RandomLength == 8

\* the byte values crypto/rand is sampled at: they map to "a", "A", "9"
SampleBytes == {0, 26, 61}

\* the outcomes of random.Generate(random.Options{Length: 8}) sampled
RandomStrings == {Generate([i \in 1..RandomLength |-> b]) : b \in SampleBytes}

----------------------------------------------------------------------------
(* uploads: options, errors, pure helpers of SaveUploadedFile *)

ErrEmptyFile == "uploaded file is empty"
ErrFileTooLarge == "uploaded file is too large"
ErrInvalidFileType == "file extension is not allowed"
ErrMkdir == "failed to create destination directory"
ErrRandom == "failed to generate random string"
ErrOpen == "failed to open uploaded file"
ErrRead == "failed to read file header"
ErrSeek == "failed to reset file reader"
ErrMime == "unsupported MIME type"
ErrCreate == "failed to created destination file"
ErrCopy == "failed to copy file"

\* the failures of the environment (filesystem, stream, entropy source)
EnvErrors == {ErrMkdir, ErrRandom, ErrOpen, ErrRead, ErrSeek, ErrCreate, ErrCopy}

\* a directory path is a sequence of path elements; "uploads"
UploadsDir == << <<"u","p","l","o","a","d","s">> >>

\* MIME types are sequences of tokens, so that strings.HasPrefix is computed
ImageJpeg == <<"image/", "jpeg">>
ImagePng == <<"image/", "png">>
ImageGif == <<"image/", "gif">>
ApplicationPdf == <<"application/", "pdf">>
TextPlain == <<"text/", "plain", "; charset=utf-8">>
OctetStream == <<"application/", "octet-stream">>

DefaultMaxSize == 10 * 1024 * 1024

\* uploads.DefaultOptions
DefaultOptions ==
    [IsNil |-> FALSE,
     DestinationDir |-> UploadsDir,
     MaxSize |-> DefaultMaxSize,
     AllowedExts |-> << <<"j","p","g">>, <<"j","p","e","g">>, <<"p","n","g">>,
                        <<"g","i","f">>, <<"p","d","f">> >>,
     AllowedMimeTypes |-> Some(<<ImageJpeg, ImagePng, ImageGif, ApplicationPdf>>),
     FilenamePrefix |-> <<>>,
     RandomizeFilename |-> FALSE]

\* if opts == nil { opts = &defaultOpts }
EffectiveOpts(o) == IF o.IsNil THEN DefaultOptions ELSE o

\* a limit that lets one byte too many through
TooLargeLenient(size, max) == size > max + 1

\* file.Size > opts.MaxSize
TooLarge(size, max) == size > max

\* ext := strings.ToLower(filepath.Ext(origFileName)); if ext != "" { ext = ext[1:] }
ExtOf(name) ==
    LET e == ToLower(Ext(name))
    IN IF e # <<>> THEN Tail(e) ELSE e

\* the allow-list matched by prefix instead of exactly
ExtAllowedByPrefix(e, allowedExts) ==
    \E i \in 1..Len(allowedExts) : HasPrefix(ToLower(allowedExts[i]), ToLower(e))

\* the allow-list matched case-sensitively
ExtAllowedCaseSensitive(e, allowedExts) ==
    \E i \in 1..Len(allowedExts) : e = allowedExts[i]

\* the loop over opts.AllowedExts with strings.EqualFold
ExtAllowed(e, allowedExts) ==
    \E i \in 1..Len(allowedExts) : EqualFold(e, allowedExts[i])

\* the extension check as a whole: passes when the list is empty
ExtCheckPasses(e, allowedExts) ==
    Len(allowedExts) > 0 => ExtAllowed(e, allowedExts)

\* baseFileName, with the optional prefix
BaseFileName(name, prefix) ==
    LET base == TrimSuffix(name, Ext(name))
    IN IF prefix # <<>> THEN prefix \o <<"_">> \o base ELSE base

\* the randomized name built without its extension
RawDestFileNameNoExt(name, prefix, randomize, rnd) ==
    IF randomize
    THEN BaseFileName(name, prefix) \o <<"_">> \o rnd
    ELSE name

\* destFileName before sanitization
RawDestFileName(name, prefix, randomize, rnd) ==
    IF randomize
    THEN BaseFileName(name, prefix) \o <<"_">> \o rnd \o <<".">> \o ExtOf(name)
    ELSE name

\* destFileName = strutil.FormatFilename(destFileName)
DestFileName(name, prefix, randomize, rnd) ==
    FormatFilename(RawDestFileName(name, prefix, randomize, rnd))

\* filepath.Join(dir, name) for a name without separators (FormatFilename strips
\* them): Clean resolves "." and ".."
Join(dir, name) ==
    IF name = <<".">> THEN dir
    ELSE IF name = <<".", ".">>
         THEN (IF dir = <<>> THEN <<name>> ELSE SubSeq(dir, 1, Len(dir) - 1))
         ELSE dir \o <<name>>

\* http.DetectContentType on the leading bytes of a file of the given content
DetectContentType(kind) ==
    CASE kind = "png" -> ImagePng
      [] kind = "pdf" -> ApplicationPdf
      [] kind = "text" -> TextPlain
      [] OTHER -> OctetStream

\* the MIME check: allow-list by prefix when non-nil, else the built-in policy
MimeAccepted(mime, allowedMimeTypes) ==
    IF allowedMimeTypes # None
    THEN \E i \in 1..Len(allowedMimeTypes[1]) : HasPrefix(mime, allowedMimeTypes[1][i])
    ELSE \/ HasPrefix(mime, <<"image/">>)
         \/ mime = ApplicationPdf
         \/ HasPrefix(mime, <<"text/">>)

\* the header buffer of SaveUploadedFile
SniffLen == 512

Min(a, b) == IF a < b THEN a ELSE b

\* every prefix of a directory path (os.MkdirAll creates the missing ancestors)
Ancestors(dir) == {SubSeq(dir, 1, n) : n \in 1..Len(dir)}

\* the descriptor built at the end of SaveUploadedFile
SavedFile(f, name, path) ==
    [OriginalName |-> f.Filename,
     SavedName |-> name,
     SavedPath |-> path,
     Size |-> f.Size,
     MIMEType |-> f.ContentType]

\* the disk after writing n bytes of content kind k at path p (os.Create truncates)
WriteFile(d, p, k, n) ==
    [q \in (DOMAIN d) \cup {p} |-> IF q = p THEN [Kind |-> k, Len |-> n] ELSE d[q]]

\* the disk after os.Remove(p); a missing file is an ignored error
RemoveFile(d, p) == [q \in (DOMAIN d) \ {p} |-> d[q]]

EmptyDisk == [q \in {} |-> [Kind |-> "", Len |-> 0]]

----------------------------------------------------------------------------
(* uploads: the inputs of a call *)

\* the characters of the client filenames given to SaveUploadedFile in Spec.
\* Client filenames are non-empty and hold no path separator: multipart
\* parsing delivers filepath.Base of the submitted name.
SaveAlphabet == {"a", "A", "."}

\* the characters of the client filenames in SpecName: letters of both cases,
\* the dot, and characters FormatFilename rewrites, strips, collapses or trims
NameAlphabet == {"a", "B", ".", "_", " ", ":"}

\* declared sizes: around the caller's limits and around the default limit
Sizes == (0..(MaxLimit + 1)) \cup {DefaultMaxSize, DefaultMaxSize + 1}

\* what the leading bytes of the uploaded content look like
Kinds == {"png", "pdf", "text", "bin"}

ExtLists == {<<>>, << <<"a">> >>, << <<>>, <<"A">> >>}

MimeLists == {None, Some(<<>>), Some(<<ImagePng, <<"text/">> >>)}

Prefixes == {<<>>, <<"A">>}

\* the nil *FileUploadOptions
NilOpts ==
    [IsNil |-> TRUE, DestinationDir |-> <<>>, MaxSize |-> 0, AllowedExts |-> <<>>,
     AllowedMimeTypes |-> None, FilenamePrefix |-> <<>>, RandomizeFilename |-> FALSE]

CallerOpts ==
    [IsNil : {FALSE}, DestinationDir : {UploadsDir}, MaxSize : 0..MaxLimit,
     AllowedExts : ExtLists, AllowedMimeTypes : MimeLists,
     FilenamePrefix : Prefixes, RandomizeFilename : BOOLEAN]

FileHeaders(names) ==
    [Filename : names, Size : Sizes, Kind : Kinds, ContentType : {"text/plain"}]

\* the locals of a call that has not started, on an empty filesystem
SaveIdle ==
    /\ steps = <<>>
    /\ ext = <<>>
    /\ destFileName = <<>>
    /\ destPath = <<>>
    /\ mimeType = <<>>
    /\ srcRead = 0
    /\ ret = None
    /\ err = ""

BatchIdle ==
    /\ files = <<>>
    /\ bi = 0
    /\ bpc = "none"
    /\ savedFiles = <<>>
    /\ berr = ""
    /\ handled = None

JsonIdle ==
    /\ jcall = [op |-> "none"]
    /\ jres = [err |-> ""]

\* a response writer nothing has been done to
NewResponseWriter == [header |-> {}, status |-> None, sent |-> None, body |-> <<>>,
                      calls |-> <<>>]

RespondIdle ==
    /\ w = NewResponseWriter
    /\ rpc = "idle"

StrutilIdle ==
    /\ scall = [op |-> "none"]
    /\ sres = [out |-> <<>>]

RaceIdle ==
    /\ shared = None
    /\ procs = <<>>

RandomIdle ==
    /\ rcall = [op |-> "none"]
    /\ rres = [out |-> <<>>, err |-> ""]

\* the packages a specification does not exercise
OthersIdle == RespondIdle /\ StrutilIdle /\ RaceIdle /\ RandomIdle

----------------------------------------------------------------------------
(* uploads.SaveUploadedFile, one action per step *)

\* a failure that still hands out the descriptor built so far
FailWithDescriptor(e) ==
    /\ pc' = "done"
    /\ err' = e
    /\ ret' = Some(SavedFile(file, destFileName, destPath))

\* return nil, e
Fail(e) ==
    /\ pc' = "done"
    /\ err' = e
    /\ ret' = None

\* if file.Size == 0 ...; if opts == nil ...; if file.Size > opts.MaxSize ...
SizeCheck ==
    /\ pc = "size"
    /\ steps' = Append(steps, "size")
    /\ IF file.Size = 0 THEN Fail(ErrEmptyFile)
       ELSE IF TooLarge(file.Size, EffectiveOpts(opts).MaxSize) THEN Fail(ErrFileTooLarge)
       ELSE pc' = "ext" /\ UNCHANGED <<err, ret>>
    /\ UNCHANGED <<file, opts, ext, destFileName, destPath, mimeType, srcRead, dirs, disk>>
    /\ UNCHANGED <<batchVars, jsonVars, respVars, strVars, raceVars, randVars>>

\* the extension and the allow-list
ExtCheck ==
    /\ pc = "ext"
    /\ steps' = Append(steps, "ext")
    /\ ext' = ExtOf(file.Filename)
    /\ IF ExtCheckPasses(ExtOf(file.Filename), EffectiveOpts(opts).AllowedExts)
       THEN pc' = "mkdir" /\ UNCHANGED <<err, ret>>
       ELSE Fail(ErrInvalidFileType)
    /\ UNCHANGED <<file, opts, destFileName, destPath, mimeType, srcRead, dirs, disk>>
    /\ UNCHANGED <<batchVars, jsonVars, respVars, strVars, raceVars, randVars>>

\* os.MkdirAll(opts.DestinationDir, 0o755)
MkdirAll ==
    /\ pc = "mkdir"
    /\ steps' = Append(steps, "mkdir")
    /\ \E ok \in BOOLEAN :
          IF ok
          THEN /\ dirs' = dirs \cup Ancestors(EffectiveOpts(opts).DestinationDir)
               /\ pc' = "name"
               /\ UNCHANGED <<err, ret>>
          ELSE /\ Fail(ErrMkdir)
               /\ UNCHANGED dirs
    /\ UNCHANGED <<file, opts, ext, destFileName, destPath, mimeType, srcRead, disk>>
    /\ UNCHANGED <<batchVars, jsonVars, respVars, strVars, raceVars, randVars>>

\* baseFileName, random.Generate, destFileName, FormatFilename, destPath
DeriveName ==
    /\ pc = "name"
    /\ steps' = Append(steps, "name")
    /\ LET o == EffectiveOpts(opts)
           rands == IF o.RandomizeFilename THEN RandomStrings ELSE {<<>>}
       IN \/ \E rnd \in rands :
                /\ destFileName' = DestFileName(file.Filename, o.FilenamePrefix,
                                                o.RandomizeFilename, rnd)
                /\ destPath' = Join(o.DestinationDir,
                                    DestFileName(file.Filename, o.FilenamePrefix,
                                                 o.RandomizeFilename, rnd))
                /\ pc' = "open"
                /\ UNCHANGED <<err, ret>>
          \/ /\ o.RandomizeFilename
             /\ Fail(ErrRandom)
             /\ UNCHANGED <<destFileName, destPath>>
    /\ UNCHANGED <<file, opts, ext, mimeType, srcRead, dirs, disk>>
    /\ UNCHANGED <<batchVars, jsonVars, respVars, strVars, raceVars, randVars>>

\* src, err := file.Open()
Open ==
    /\ pc = "open"
    /\ steps' = Append(steps, "open")
    /\ \E ok \in BOOLEAN :
          IF ok THEN pc' = "read" /\ UNCHANGED <<err, ret>> ELSE Fail(ErrOpen)
    /\ UNCHANGED <<file, opts, ext, destFileName, destPath, mimeType, srcRead, dirs, disk>>
    /\ UNCHANGED <<batchVars, jsonVars, respVars, strVars, raceVars, randVars>>

\* n, err := src.Read(buffer); mimeType := http.DetectContentType(buffer[:n])
ReadHeader ==
    /\ pc = "read"
    /\ steps' = Append(steps, "read")
    /\ \E ok \in BOOLEAN :
          IF ok
          THEN /\ srcRead' = srcRead + Min(SniffLen, file.Size)
               /\ mimeType' = DetectContentType(file.Kind)
               /\ pc' = "seek"
               /\ UNCHANGED <<err, ret>>
          ELSE /\ Fail(ErrRead)
               /\ UNCHANGED <<srcRead, mimeType>>
    /\ UNCHANGED <<file, opts, ext, destFileName, destPath, dirs, disk>>
    /\ UNCHANGED <<batchVars, jsonVars, respVars, strVars, raceVars, randVars>>

\* src.Seek(0, io.SeekStart)
Seek ==
    /\ pc = "seek"
    /\ steps' = Append(steps, "seek")
    /\ \E ok \in BOOLEAN :
          IF ok THEN pc' = "mime" /\ UNCHANGED <<err, ret>> ELSE Fail(ErrSeek)
    /\ UNCHANGED <<file, opts, ext, destFileName, destPath, mimeType, srcRead, dirs, disk>>
    /\ UNCHANGED <<batchVars, jsonVars, respVars, strVars, raceVars, randVars>>

\* a MIME check made after the destination file was created
MimeCheckAfterCreate ==
    /\ pc = "mime"
    /\ steps' = Append(steps, "mime")
    /\ IF MimeAccepted(mimeType, EffectiveOpts(opts).AllowedMimeTypes)
       THEN pc' = "create" /\ UNCHANGED <<err, ret, disk>>
       ELSE Fail(ErrMime) /\ disk' = WriteFile(disk, destPath, file.Kind, 0)
    /\ UNCHANGED <<file, opts, ext, destFileName, destPath, mimeType, srcRead, dirs>>
    /\ UNCHANGED <<batchVars, jsonVars, respVars, strVars, raceVars, randVars>>

\* the MIME check on the sniffed type
MimeCheck ==
    /\ pc = "mime"
    /\ steps' = Append(steps, "mime")
    /\ IF MimeAccepted(mimeType, EffectiveOpts(opts).AllowedMimeTypes)
       THEN pc' = "create" /\ UNCHANGED <<err, ret>>
       ELSE Fail(ErrMime)
    /\ UNCHANGED <<file, opts, ext, destFileName, destPath, mimeType, srcRead, dirs, disk>>
    /\ UNCHANGED <<batchVars, jsonVars, respVars, strVars, raceVars, randVars>>

\* os.Create fails on a path that names a directory
CreateCanSucceed(path, directories) == path # <<>> /\ path \notin directories

\* dst, err := os.Create(destPath)
Create ==
    /\ pc = "create"
    /\ steps' = Append(steps, "create")
    /\ \/ /\ CreateCanSucceed(destPath, dirs)
          /\ disk' = WriteFile(disk, destPath, file.Kind, 0)
          /\ pc' = "copy"
          /\ UNCHANGED <<err, ret>>
       \/ /\ Fail(ErrCreate)
          /\ UNCHANGED disk
    /\ UNCHANGED <<file, opts, ext, destFileName, destPath, mimeType, srcRead, dirs>>
    /\ UNCHANGED <<batchVars, jsonVars, respVars, strVars, raceVars, randVars>>

\* what SaveUploadedFile returns once io.Copy has returned without error
CopyResult(f, name, path) == Some(SavedFile(f, name, path))

\* io.Copy(dst, src), then the descriptor; a failed copy leaves a partial file
Copy ==
    /\ pc = "copy"
    /\ steps' = Append(steps, "copy")
    /\ \/ /\ disk' = WriteFile(disk, destPath, file.Kind, file.Size)
          /\ srcRead' = srcRead + file.Size
          /\ pc' = "done"
          /\ err' = ""
          /\ ret' = CopyResult(file, destFileName, destPath)
       \/ \E n \in {0, file.Size - 1} :
             /\ disk' = WriteFile(disk, destPath, file.Kind, n)
             /\ srcRead' = srcRead + n
             /\ pc' = "done"
             /\ err' = ErrCopy
             /\ ret' = None
    /\ UNCHANGED <<file, opts, ext, destFileName, destPath, mimeType, dirs>>
    /\ UNCHANGED <<batchVars, jsonVars, respVars, strVars, raceVars, randVars>>

SaveUploadedFile ==
    \/ SizeCheck
    \/ ExtCheck
    \/ MkdirAll
    \/ DeriveName
    \/ Open
    \/ ReadHeader
    \/ Seek
    \/ MimeCheck
    \/ Create
    \/ Copy

\* one SaveUploadedFile call on an empty filesystem
Init ==
    /\ file \in FileHeaders(StringsOver(SaveAlphabet, 1, MaxSaveNameLen))
    /\ opts \in {NilOpts} \cup CallerOpts
    /\ pc = "size"
    /\ dirs = {}
    /\ disk = EmptyDisk
    /\ SaveIdle
    /\ BatchIdle
    /\ JsonIdle
    /\ OthersIdle

Next == SaveUploadedFile

Spec == Init /\ [][Next]_vars

----------------------------------------------------------------------------
(* uploads.SaveMultipleFormFiles *)

ErrParseForm == "failed to parse multipart from"
ErrNoFiles == "no files uploaded with the given field name"
NilDereference == "panic: nil pointer dereference"

\* the files of one form field: two names, saved (size 1) or empty (size 0)
BatchHeaders ==
    [Filename : {<<"a">>, <<"b">>}, Size : {0, 1}, Kind : {"text"},
     ContentType : {"text/plain"}]

BatchOpts ==
    [IsNil |-> FALSE, DestinationDir |-> UploadsDir, MaxSize |-> 1,
     AllowedExts |-> <<>>, AllowedMimeTypes |-> None, FilenamePrefix |-> <<>>,
     RandomizeFilename |-> FALSE]

\* the paths of the non-nil entries of a savedFiles slice
SavedPaths(saved) ==
    {saved[i][1].SavedPath : i \in {j \in 1..Len(saved) : saved[j] # None}}

\* for _, saved := range savedFiles { os.Remove(saved.SavedPath) }: the disk it
\* leaves and whether it panicked; saved.SavedPath on a nil entry dereferences nil
RECURSIVE Cleanup(_, _)
Cleanup(d, saved) ==
    IF saved = <<>> THEN [disk |-> d, panic |-> FALSE]
    ELSE IF Head(saved) = None THEN [disk |-> d, panic |-> TRUE]
         ELSE Cleanup(RemoveFile(d, Head(saved)[1].SavedPath), Tail(saved))

\* r.ParseMultipartForm and the lookup of the field's files
BatchStart ==
    /\ bpc = "start"
    /\ \/ /\ bpc' = "returned"
          /\ berr' = ErrParseForm
       \/ /\ Len(files) = 0
          /\ bpc' = "returned"
          /\ berr' = ErrNoFiles
       \/ /\ Len(files) > 0
          /\ bpc' = "loop"
          /\ UNCHANGED berr
    /\ UNCHANGED <<files, bi, savedFiles, handled>>
    /\ UNCHANGED <<saveVars, jsonVars, respVars, strVars, raceVars, randVars>>

\* the loop head: call SaveUploadedFile(fileHeader, opts) on the next file, or
\* return savedFiles, nil after the last
BatchCall ==
    /\ bpc = "loop"
    /\ IF bi < Len(files)
       THEN /\ bi' = bi + 1
            /\ file' = files[bi + 1]
            /\ pc' = "size"
            /\ steps' = <<>>
            /\ ext' = <<>>
            /\ destFileName' = <<>>
            /\ destPath' = <<>>
            /\ mimeType' = <<>>
            /\ srcRead' = 0
            /\ ret' = None
            /\ err' = ""
            /\ bpc' = "saving"
            /\ handled' = None
            /\ UNCHANGED <<opts, dirs, disk, files, savedFiles, berr>>
       ELSE /\ bpc' = "returned"
            /\ berr' = ""
            /\ UNCHANGED <<saveVars, files, bi, savedFiles, handled>>
    /\ UNCHANGED <<jsonVars, respVars, strVars, raceVars, randVars>>

\* after SaveUploadedFile returned: on an error the cleanup loop, then
\* savedFiles = append(savedFiles, savedFile)
BatchAppend ==
    /\ bpc = "saving"
    /\ pc = "done"
    /\ IF err # ""
       THEN /\ disk' = Cleanup(disk, savedFiles).disk
            /\ handled' = Some(SavedPaths(savedFiles))
            /\ IF Cleanup(disk, savedFiles).panic
               THEN /\ bpc' = "panic"
                    /\ berr' = NilDereference
                    /\ UNCHANGED savedFiles
               ELSE /\ bpc' = "loop"
                    /\ savedFiles' = Append(savedFiles, ret)
                    /\ UNCHANGED berr
       ELSE /\ bpc' = "loop"
            /\ savedFiles' = Append(savedFiles, ret)
            /\ UNCHANGED <<disk, handled, berr>>
    /\ UNCHANGED <<file, opts, pc, steps, ext, destFileName, destPath, mimeType,
                   srcRead, dirs, ret, err, files, bi>>
    /\ UNCHANGED <<jsonVars, respVars, strVars, raceVars, randVars>>

SaveMultipleFormFiles ==
    \/ BatchStart
    \/ BatchCall
    \/ BatchAppend

InitBatch ==
    /\ files \in UNION {[1..n -> BatchHeaders] : n \in 0..MaxBatch}
    /\ opts = BatchOpts
    /\ file = [Filename |-> <<>>, Size |-> 0, Kind |-> "text", ContentType |-> "text/plain"]
    /\ pc = "idle"
    /\ dirs = {}
    /\ disk = EmptyDisk
    /\ SaveIdle
    /\ bi = 0
    /\ bpc = "start"
    /\ savedFiles = <<>>
    /\ berr = ""
    /\ handled = None
    /\ JsonIdle
    /\ OthersIdle

NextBatch == SaveMultipleFormFiles \/ (bpc = "saving" /\ SaveUploadedFile)

SpecBatch == InitBatch /\ [][NextBatch]_vars

\* filename derivation: one SaveUploadedFile call that passes the size and
\* extension checks, over filenames with characters FormatFilename rewrites
NamePrefixes == {<<>>, <<"p">>}

InitName ==
    /\ file \in [Filename : StringsOver(NameAlphabet, 1, MaxNameLen), Size : {1},
                 Kind : {"text"}, ContentType : {"text/plain"}]
    /\ opts \in [IsNil : {FALSE}, DestinationDir : {UploadsDir}, MaxSize : {1},
                 AllowedExts : {<<>>}, AllowedMimeTypes : {None},
                 FilenamePrefix : NamePrefixes, RandomizeFilename : BOOLEAN]
    /\ pc = "size"
    /\ dirs = {}
    /\ disk = EmptyDisk
    /\ SaveIdle
    /\ BatchIdle
    /\ JsonIdle
    /\ OthersIdle

SpecName == InitName /\ [][Next]_vars

----------------------------------------------------------------------------
(* jsonx: Options, mergeOptions *)

ErrInvalidJSON == "invalid JSON format"
ErrInvalidTarget == "decode target must be a non-nil pointer"
ErrNoContent == "no content to decode"
UnsupportedTypeError == "json: unsupported type"

StatusOK == 200
StatusBadRequest == 400

\* jsonx.DefaultOptions; Headers is a set of <<name, value>> pairs
JsonxDefaultOptions ==
    [SuccessStatus |-> StatusOK,
     ErrorStatus |-> StatusBadRequest,
     ContentType |-> "application/json",
     AllowEmpty |-> TRUE,
     EnforceContentType |-> TRUE,
     Headers |-> Some({}),
     IndentResponse |-> FALSE,
     EscapeHTML |-> FALSE]

\* boolean fields that override the default only when the caller set them true
mergeOptionsKeepingTrueDefaults(defaults, customs) ==
    IF Len(customs) = 0 THEN defaults
    ELSE LET custom == customs[1]
             status(c, d) == IF c > 0 THEN c ELSE d
         IN [SuccessStatus |-> status(custom.SuccessStatus, defaults.SuccessStatus),
             ErrorStatus |-> status(custom.ErrorStatus, defaults.ErrorStatus),
             ContentType |-> IF custom.ContentType # "" THEN custom.ContentType
                             ELSE defaults.ContentType,
             AllowEmpty |-> custom.AllowEmpty \/ defaults.AllowEmpty,
             EnforceContentType |-> custom.EnforceContentType \/ defaults.EnforceContentType,
             Headers |-> IF custom.Headers # None THEN custom.Headers ELSE defaults.Headers,
             IndentResponse |-> custom.IndentResponse \/ defaults.IndentResponse,
             EscapeHTML |-> custom.EscapeHTML \/ defaults.EscapeHTML]

\* jsonx.mergeOptions(defaults, customs...)
mergeOptions(defaults, customs) ==
    IF Len(customs) = 0 THEN defaults
    ELSE LET custom == customs[1]
             r1 == [defaults EXCEPT
                      !.SuccessStatus = IF custom.SuccessStatus # 0
                                        THEN custom.SuccessStatus ELSE @,
                      !.ErrorStatus = IF custom.ErrorStatus # 0
                                      THEN custom.ErrorStatus ELSE @,
                      !.ContentType = IF custom.ContentType # ""
                                      THEN custom.ContentType ELSE @,
                      !.AllowEmpty = custom.AllowEmpty,
                      !.EnforceContentType = custom.EnforceContentType,
                      !.IndentResponse = custom.IndentResponse,
                      !.EscapeHTML = custom.EscapeHTML,
                      !.Headers = IF custom.Headers # None THEN custom.Headers ELSE @]
         IN [r1 EXCEPT
               !.SuccessStatus = IF r1.SuccessStatus <= 0 THEN StatusOK ELSE @,
               !.ErrorStatus = IF r1.ErrorStatus <= 0 THEN StatusBadRequest ELSE @]

\* the caller's Options values the model draws from
CallerJsonOptions ==
    [SuccessStatus : {-1, 0, 201},
     ErrorStatus : {-1, 0, 404},
     ContentType : {"", "text/json"},
     AllowEmpty : BOOLEAN,
     EnforceContentType : BOOLEAN,
     Headers : {None, Some({}), Some({<<"X-Request-Id", "1">>})},
     IndentResponse : BOOLEAN,
     EscapeHTML : BOOLEAN]

\* the variadic opts ...Options: none, or one
VariadicOptions == {<<>>} \cup {<<o>> : o \in CallerJsonOptions}

\* the options given to EncodeJSON: only the fields EncodeJSON reads vary
EncodeOptions ==
    {<<>>} \cup {<<o>> : o \in [SuccessStatus : {0}, ErrorStatus : {0}, ContentType : {""},
                               AllowEmpty : BOOLEAN, EnforceContentType : {FALSE},
                               Headers : {None}, IndentResponse : BOOLEAN,
                               EscapeHTML : BOOLEAN]}

----------------------------------------------------------------------------
(* jsonx.DecodeJSON *)

\* the characters of a request stream: JSON whitespace, a digit, braces
StreamAlphabet == {" ", "1", "{", "}"}

\* the io.Reader given to DecodeJSON: nil, a reader over a string, or a reader
\* whose Read fails
Readers ==
    {[kind |-> "nil", data |-> <<>>], [kind |-> "failing", data |-> <<>>]}
        \cup {[kind |-> "string", data |-> d] : d \in StringsOver(StreamAlphabet, 0, MaxStream)}

\* the target argument: untyped nil, a struct passed by value, a nil pointer,
\* a pointer to a struct, a pointer to an interface value
Targets == {"nil", "struct", "nilptr", "ptr-struct", "ptr-any"}

\* target == nil || Kind() != reflect.Ptr || IsNil()
InvalidTarget(target) == target \in {"nil", "struct", "nilptr"}

\* json.Decoder reading its first value: "eof" when the input ends before any
\* token, "unexpected-eof" inside a value, "syntax" on an invalid character,
\* else the kind of the value; what follows the first value is not examined
ScanObject(s) ==
    LET rest == TrimLeft(s, " ")
    IN IF rest = <<>> THEN "unexpected-eof"
       ELSE IF Head(rest) = "}" THEN "object"
       ELSE "syntax"

ReadValue(s) ==
    LET rest == TrimLeft(s, " ")
    IN IF rest = <<>> THEN "eof"
       ELSE IF Head(rest) = "1" THEN "number"
       ELSE IF Head(rest) = "{" THEN ScanObject(Tail(rest))
       ELSE "syntax"

\* decoder.Decode(target) on a string reader: the error it returns
DecodeError(data, target) ==
    LET v == ReadValue(data)
    IN IF v = "eof" THEN "io.EOF"
       ELSE IF v = "unexpected-eof" THEN "io.ErrUnexpectedEOF"
       ELSE IF v = "syntax" THEN "json.SyntaxError"
       ELSE IF v = "number" /\ target = "ptr-struct" THEN "json.UnmarshalTypeError"
       ELSE ""

\* jsonx.DecodeJSON(r, target): the error and whether the target was populated.
\* A nil io.Reader is dereferenced by the decoder's first Read: a panic.
DecodeJSON(r, target) ==
    IF InvalidTarget(target) THEN [err |-> ErrInvalidTarget, populated |-> FALSE]
    ELSE IF r.kind = "nil" THEN [err |-> NilDereference, populated |-> FALSE]
    ELSE IF r.kind = "failing" THEN [err |-> ErrInvalidJSON, populated |-> FALSE]
    ELSE IF DecodeError(r.data, target) = "io.EOF"
         THEN [err |-> ErrNoContent, populated |-> FALSE]
    ELSE IF DecodeError(r.data, target) # ""
         THEN [err |-> ErrInvalidJSON, populated |-> FALSE]
    ELSE [err |-> "", populated |-> TRUE]

----------------------------------------------------------------------------
(* jsonx.EncodeJSON *)

\* the values given to EncodeJSON: untyped nil, a nil pointer, a nil map, a
\* struct, a pointer to a struct, the string "<", a channel (not encodable)
DataValues == {"nil", "nilptr", "nilmap", "struct", "ptr", "html", "chan"}

\* a null check that sees the untyped nil only
IsNullDataUntypedOnly(data) == data = "nil"

\* data == nil || (Kind() == reflect.Ptr && IsNil())
IsNullData(data) == data \in {"nil", "nilptr"}

\* encoder.Encode(data): the text written, as tokens, before the newline
Marshal(data, escapeHTML, indent) ==
    CASE data \in {"nil", "nilptr", "nilmap"} -> <<"null">>
      [] data \in {"struct", "ptr"} ->
            IF indent THEN <<"{", "LF", "  ", "\"name\": \"test\"", "LF", "}">>
            ELSE <<"{", "\"name\":\"test\"", "}">>
      [] data = "html" -> IF escapeHTML THEN <<"\"\\u003c\"">> ELSE <<"\"<\"">>
      [] OTHER -> <<>>

\* jsonx.EncodeJSON(w, data, opts...): the error and what was written to w
EncodeJSON(data, customs) ==
    LET opt == mergeOptions(JsonxDefaultOptions, customs)
    IN IF ~opt.AllowEmpty /\ IsNullData(data)
       THEN [err |-> ErrNoContent, written |-> <<>>]
       ELSE IF data = "chan"
            THEN [err |-> UnsupportedTypeError, written |-> <<>>]
            ELSE [err |-> "",
                  written |-> Marshal(data, opt.EscapeHTML, opt.IndentResponse) \o <<"LF">>]

----------------------------------------------------------------------------
(* jsonx.DecodeJSONFromRequest *)

ErrUnsupportedMediaType == "unsupported media type, expected application/json"

ApplicationJson == <<"a","p","p","l","i","c","a","t","i","o","n","/","j","s","o","n">>

\* a containment test that looks at the start of the string only
ContainsAtStart(s, sub) == Len(sub) <= Len(s) /\ SubSeq(s, 1, Len(sub)) = sub

\* strings.Contains
Contains(s, sub) ==
    \E i \in 0..(Len(s) - Len(sub)) : SubSeq(s, i + 1, i + Len(sub)) = sub

\* the values of a request's Content-Type header; <<>> when the header is absent
RequestContentTypes ==
    {<<>>,
     ApplicationJson,
     <<"A","P","P","L","I","C","A","T","I","O","N","/","J","S","O","N">>,
     <<"A","p","p","l","i","c","a","t","i","o","n","/","J","s","o","n">>,
     ApplicationJson \o <<";"," ","c","h","a","r","s","e","t","=","u","t","f","-","8">>,
     <<"t","e","x","t","/","p","l","a","i","n">>,
     <<"t","e","x","t","/","p","l","a","i","n",","," ">> \o ApplicationJson,
     <<"a","p","p","l","i","c","a","t","i","o","n","/","j","s","o">>,
     <<"a","p","p","l","i","c","a","t","i","o","n","/","x","m","l">>}

\* the opts of DecodeJSONFromRequest: only EnforceContentType is read
RequestOptions ==
    {<<>>} \cup {<<o>> : o \in [SuccessStatus : {0}, ErrorStatus : {0}, ContentType : {""},
                               AllowEmpty : {FALSE}, EnforceContentType : BOOLEAN,
                               Headers : {None}, IndentResponse : {FALSE},
                               EscapeHTML : {FALSE}]}

\* whether DecodeJSON reads from r: the decoder reads once the target passed
ReadsBody(r, target) == ~InvalidTarget(target) /\ r.kind # "nil"

\* jsonx.DecodeJSONFromRequest(r, target, opts...): the outcome of DecodeJSON
\* and whether the body was read
DecodeJSONFromRequest(contentType, body, target, customs) ==
    LET opt == mergeOptions(JsonxDefaultOptions, customs)
    IN IF opt.EnforceContentType /\ ~Contains(ToLower(contentType), ApplicationJson)
       THEN [err |-> ErrUnsupportedMediaType, populated |-> FALSE, bodyRead |-> FALSE]
       ELSE [err |-> DecodeJSON(body, target).err,
             populated |-> DecodeJSON(body, target).populated,
             bodyRead |-> ReadsBody(body, target)]

----------------------------------------------------------------------------
(* jsonx: the calls; each is one call of a stateless function *)

CallMergeOptions ==
    /\ jcall.op = "none"
    /\ \E customs \in VariadicOptions :
          /\ jcall' = [op |-> "mergeOptions", customs |-> customs]
          /\ jres' = [err |-> "", opt |-> mergeOptions(JsonxDefaultOptions, customs)]
    /\ UNCHANGED <<saveVars, batchVars, respVars, strVars, raceVars, randVars>>

CallDecodeJSON ==
    /\ jcall.op = "none"
    /\ \E r \in Readers, target \in Targets :
          /\ jcall' = [op |-> "DecodeJSON", r |-> r, target |-> target]
          /\ jres' = DecodeJSON(r, target)
    /\ UNCHANGED <<saveVars, batchVars, respVars, strVars, raceVars, randVars>>

CallEncodeJSON ==
    /\ jcall.op = "none"
    /\ \E data \in DataValues, customs \in EncodeOptions :
          /\ jcall' = [op |-> "EncodeJSON", data |-> data, customs |-> customs]
          /\ jres' = EncodeJSON(data, customs)
    /\ UNCHANGED <<saveVars, batchVars, respVars, strVars, raceVars, randVars>>

CallDecodeJSONFromRequest ==
    /\ jcall.op = "none"
    /\ \E ct \in RequestContentTypes, body \in Readers, target \in Targets,
          customs \in RequestOptions :
          /\ jcall' = [op |-> "DecodeJSONFromRequest", contentType |-> ct, r |-> body,
                       target |-> target, customs |-> customs]
          /\ jres' = DecodeJSONFromRequest(ct, body, target, customs)
    /\ UNCHANGED <<saveVars, batchVars, respVars, strVars, raceVars, randVars>>

InitJson ==
    /\ file = [Filename |-> <<>>, Size |-> 0, Kind |-> "text", ContentType |-> "text/plain"]
    /\ opts = NilOpts
    /\ pc = "idle"
    /\ dirs = {}
    /\ disk = EmptyDisk
    /\ SaveIdle
    /\ BatchIdle
    /\ JsonIdle
    /\ OthersIdle

NextJson ==
    \/ CallMergeOptions
    \/ CallDecodeJSON
    \/ CallEncodeJSON
    \/ CallDecodeJSONFromRequest

SpecJson == InitJson /\ [][NextJson]_vars

----------------------------------------------------------------------------
(* jsonx: http.ResponseWriter and the values the response helpers embed *)

\* textproto.CanonicalMIMEHeaderKey on the header names of the model
CanonicalMIMEHeaderKey(k) ==
    CASE k = "content-type" -> "Content-Type"
      [] k = "x-request-id" -> "X-Request-Id"
      [] OTHER -> k

\* w.Header().Add(k, v) in place of Set: keeps the values already there
HeaderAdd(wr, k, v) ==
    [wr EXCEPT !.header = @ \cup {<<CanonicalMIMEHeaderKey(k), v>>},
               !.calls = Append(@, <<"Header.Set", k, v>>)]

\* w.Header().Set(k, v): replaces the values of the canonical name; the
\* header map is a set of <<name, value>> pairs
HeaderSet(wr, k, v) ==
    [wr EXCEPT !.header = {h \in @ : h[1] # CanonicalMIMEHeaderKey(k)}
                              \cup {<<CanonicalMIMEHeaderKey(k), v>>},
               !.calls = Append(@, <<"Header.Set", k, v>>)]

\* a WriteHeader that only notes the call and commits nothing until a Write
WriteHeaderDeferred(wr, code) ==
    [wr EXCEPT !.calls = Append(@, <<"WriteHeader", code>>)]

\* w.WriteHeader(code): the first call commits the status and the headers as
\* they are then; a later call is ignored
WriteHeader(wr, code) ==
    [wr EXCEPT !.status = IF @ = None THEN Some(code) ELSE @,
               !.sent = IF @ = None THEN Some(wr.header) ELSE @,
               !.calls = Append(@, <<"WriteHeader", code>>)]

\* w.Write(p): commits status 200 first when no status was written
Write(wr, p) ==
    [wr EXCEPT !.status = IF @ = None THEN Some(StatusOK) ELSE @,
               !.sent = IF @ = None THEN Some(wr.header) ELSE @,
               !.body = @ \o p,
               !.calls = Append(@, <<"Write">>)]

\* a Go value of dynamic type t; val is a sequence of strings, None for a nil
\* pointer or nil map, Some(v) for a non-nil pointer to v
Value(t, v) == [type |-> t, val |-> v]
NilValue == Value("nil", None)
UnknownError == Value("string", <<"unknown error">>)

\* the err arguments given to RespondWithError
ErrArgs ==
    {NilValue,
     Value("ErrorDetail", <<"E1", "bad input">>),
     Value("*ErrorDetail", Some(<<"E1", "bad input">>)),
     Value("*ErrorDetail", None),
     Value("*errors.errorString", Some(<<"boom">>)),
     Value("string", <<"oops">>),
     Value("map[string]any", Some(<<"field", "required">>)),
     Value("map[string]any", None),
     Value("int", <<"7">>),
     Value("*int", None),
     Value("chan int", <<"c">>)}

\* the dynamic types of the model that implement the error interface
ImplementsError(t) == t = "*errors.errorString"

\* the type switch of RespondWithError that keeps a nil *ErrorDetail as it is
NormalizeErrorKeepingNilDetail(e) ==
    IF e.type = "*ErrorDetail" /\ e.val # None THEN Value("ErrorDetail", e.val[1])
    ELSE IF e.type = "*ErrorDetail" THEN e
    ELSE IF ImplementsError(e.type) THEN Value("string", e.val[1])
    ELSE IF e.type = "nil" THEN UnknownError
    ELSE e

\* the type switch of RespondWithError: the value stored in resp.Error
NormalizeError(e) ==
    IF e.type = "ErrorDetail" THEN e
    ELSE IF e.type = "*ErrorDetail"
         THEN IF e.val # None THEN Value("ErrorDetail", e.val[1]) ELSE UnknownError
    ELSE IF ImplementsError(e.type) THEN Value("string", e.val[1])
    ELSE IF e.type = "string" THEN e
    ELSE IF e.type = "map[string]any" THEN e
    ELSE IF e.type # "nil" THEN e
    ELSE UnknownError

\* whether encoding/json renders the value as null
EncodesAsNull(v) ==
    \/ v.type = "nil"
    \/ v.type \in {"*ErrorDetail", "*int", "map[string]any"} /\ v.val = None

\* encoding/json on a value stored in resp.Error
MarshalValue(v) ==
    IF EncodesAsNull(v) THEN <<"null">>
    ELSE IF v.type \in {"ErrorDetail", "map[string]any"} THEN <<"{">> \o v.val \o <<"}">>
    ELSE IF v.type = "string" THEN <<"\"">> \o v.val \o <<"\"">>
    ELSE v.val

\* the Response envelope; Data and Meta hold values of DataValues
Response(success, data, error, meta) ==
    [Success |-> success, Data |-> data, Error |-> error, Meta |-> meta]

\* encoder.Encode(resp) on a Response: the four members as JSON
MarshalResponse(resp, escapeHTML, indent) ==
    [success |-> resp.Success,
     data |-> Marshal(resp.Data, escapeHTML, indent),
     error |-> MarshalValue(resp.Error),
     meta |-> Marshal(resp.Meta, escapeHTML, indent)]

\* jsonx.EncodeJSON(w, resp, opt) on a Response struct: a struct is neither
\* nil nor a pointer, so the empty check never fires; encoding fails when a
\* member is not encodable, and then nothing is written
EncodeResponse(resp, customs) ==
    LET opt == mergeOptions(JsonxDefaultOptions, customs)
    IN IF resp.Data = "chan" \/ resp.Meta = "chan" \/ resp.Error.type = "chan int"
       THEN [err |-> UnsupportedTypeError, written |-> <<>>]
       ELSE [err |-> "",
             written |-> <<MarshalResponse(resp, opt.EscapeHTML, opt.IndentResponse), "LF">>]

----------------------------------------------------------------------------
(* jsonx: RespondWithJSON, RespondWithError, RespondWithSuccess, Send* *)

\* the caller's Options of a response helper: the fields the helpers read vary
RespondOptions ==
    [SuccessStatus : {0, 201},
     ErrorStatus : {-1, 404},
     ContentType : {"", "text/json"},
     AllowEmpty : BOOLEAN,
     EnforceContentType : {FALSE},
     Headers : {None,
                Some({<<"X-Request-Id", "1">>}),
                Some({<<"content-type", "text/plain">>, <<"X-Request-Id", "1">>}),
                Some({<<"content-type", "text/plain">>, <<"Content-Type", "text/html">>})},
     IndentResponse : {FALSE},
     EscapeHTML : {FALSE}]

RespondVariadic == {<<>>} \cup {<<o>> : o \in RespondOptions}

\* the data and meta arguments of the response helpers
RespondData == {"nil", "nilptr", "struct", "chan"}
RespondMeta == {"nil", "nilptr", "struct"}

\* the arguments of SendError(w, err error): values of interface type error
SendErrorArgs == {e \in ErrArgs : e.type = "nil" \/ ImplementsError(e.type)}

\* the locals of a response helper after its first statements: the merged
\* options and, for the envelope helpers, resp
RespondLocals(op, via, data, errArg, meta, customs) ==
    [op |-> op, via |-> via, data |-> data, errArg |-> errArg, meta |-> meta,
     customs |-> customs,
     opt |-> mergeOptions(JsonxDefaultOptions, customs),
     resp |-> IF op = "RespondWithError"
              THEN Response(FALSE, "nil", NormalizeError(errArg), "nil")
              ELSE Response(TRUE, data, NilValue, IF meta # "nil" THEN meta ELSE "nil"),
     pending |-> {}]

\* a helper is called: RespondWithJSON(w, data, opts...),
\* RespondWithError(w, err, opts...), RespondWithSuccess(w, data, meta, opts...)
\* or a Send* shorthand, which passes no options (and SendSuccess a nil meta)
RespondStart ==
    /\ rpc = "idle"
    /\ \/ \E data \in RespondData, customs \in RespondVariadic :
             jcall' = RespondLocals("RespondWithJSON", "", data, NilValue, "nil", customs)
       \/ \E e \in ErrArgs, customs \in RespondVariadic :
             jcall' = RespondLocals("RespondWithError", "", "nil", e, "nil", customs)
       \/ \E data \in RespondData, meta \in RespondMeta, customs \in RespondVariadic :
             jcall' = RespondLocals("RespondWithSuccess", "", data, NilValue, meta, customs)
       \/ \E data \in RespondData :
             jcall' = RespondLocals("RespondWithJSON", "Send", data, NilValue, "nil", <<>>)
       \/ \E e \in SendErrorArgs :
             jcall' = RespondLocals("RespondWithError", "SendError", "nil", e, "nil", <<>>)
       \/ \E data \in RespondData :
             jcall' = RespondLocals("RespondWithSuccess", "SendSuccess", data, NilValue,
                                    "nil", <<>>)
    /\ rpc' = "content-type"
    /\ UNCHANGED <<saveVars, batchVars, jres, w, strVars, raceVars, randVars>>

\* w.Header().Set("Content-Type", opt.ContentType)
SetContentType ==
    /\ rpc = "content-type"
    /\ w' = HeaderSet(w, "Content-Type", jcall.opt.ContentType)
    /\ jcall' = [jcall EXCEPT !.pending = jcall.opt.Headers[1]]
    /\ rpc' = "headers"
    /\ UNCHANGED <<saveVars, batchVars, jres, strVars, raceVars, randVars>>

\* one iteration of for k, v := range opt.Headers: the order of a map range
\* is not specified
SetExtraHeader ==
    /\ rpc = "headers"
    /\ \E h \in jcall.pending :
          /\ w' = HeaderSet(w, h[1], h[2])
          /\ jcall' = [jcall EXCEPT !.pending = @ \ {h}]
    /\ UNCHANGED <<saveVars, batchVars, jres, rpc, strVars, raceVars, randVars>>

\* w.WriteHeader(opt.SuccessStatus) or w.WriteHeader(opt.ErrorStatus)
WriteStatus ==
    /\ rpc = "headers"
    /\ jcall.pending = {}
    /\ w' = WriteHeader(w, IF jcall.op = "RespondWithError" THEN jcall.opt.ErrorStatus
                           ELSE jcall.opt.SuccessStatus)
    /\ rpc' = "encode"
    /\ UNCHANGED <<saveVars, batchVars, jsonVars, strVars, raceVars, randVars>>

\* return EncodeJSON(w, data, opt) or EncodeJSON(w, resp, opt): the merged
\* options are merged with the defaults once more
EncodeBody ==
    /\ rpc = "encode"
    /\ LET r == IF jcall.op = "RespondWithJSON"
                THEN EncodeJSON(jcall.data, <<jcall.opt>>)
                ELSE EncodeResponse(jcall.resp, <<jcall.opt>>)
       IN /\ w' = IF r.written # <<>> THEN Write(w, r.written) ELSE w
          /\ jres' = [err |-> r.err]
    /\ rpc' = "done"
    /\ UNCHANGED <<saveVars, batchVars, jcall, strVars, raceVars, randVars>>

InitRespond ==
    /\ file = [Filename |-> <<>>, Size |-> 0, Kind |-> "text", ContentType |-> "text/plain"]
    /\ opts = NilOpts
    /\ pc = "idle"
    /\ dirs = {}
    /\ disk = EmptyDisk
    /\ SaveIdle
    /\ BatchIdle
    /\ JsonIdle
    /\ OthersIdle

NextRespond ==
    \/ RespondStart
    \/ SetContentType
    \/ SetExtraHeader
    \/ WriteStatus
    \/ EncodeBody

SpecRespond == InitRespond /\ [][NextRespond]_vars

----------------------------------------------------------------------------
(* strutil: Truncate, StripHTML, and FormatFilename called on its own *)

\* the result of a function that may panic
Returned(out) == [panic |-> FALSE, out |-> out]
Panicked == [panic |-> TRUE, out |-> <<>>]

\* Truncate with the slice bound clamped at zero
TruncateClamped(s, max) ==
    IF Len(s) <= max THEN Returned(s)
    ELSE Returned(SubSeq(s, 1, IF max < 0 THEN 0 ELSE max) \o <<".", ".", ".">>)

\* strutil.Truncate(s, max): s[:max] with a negative max is a slice bound out
\* of range, a run-time panic
Truncate(s, max) ==
    IF Len(s) <= max THEN Returned(s)
    ELSE IF max < 0 THEN Panicked
    ELSE Returned(SubSeq(s, 1, max) \o <<".", ".", ".">>)

\* regexp `(?s)<[^>]*>` replaced by "": each "<" that has a ">" after it is
\* removed together with everything up to the first such ">"
RECURSIVE StripTags(_)
StripTags(s) ==
    IF s = <<>> THEN <<>>
    ELSE IF Head(s) = "<" /\ \E i \in 2..Len(s) : s[i] = ">"
         THEN LET close == CHOOSE i \in 2..Len(s) :
                              s[i] = ">" /\ \A j \in 2..(i - 1) : s[j] # ">"
              IN StripTags(SubSeq(s, close + 1, Len(s)))
         ELSE <<Head(s)>> \o StripTags(Tail(s))

\* strings.ReplaceAll(s, old, new) for a non-empty old
RECURSIVE ReplaceAll(_, _, _)
ReplaceAll(s, old, new) ==
    IF Len(s) < Len(old) THEN s
    ELSE IF SubSeq(s, 1, Len(old)) = old
         THEN new \o ReplaceAll(SubSeq(s, Len(old) + 1, Len(s)), old, new)
         ELSE <<Head(s)>> \o ReplaceAll(Tail(s), old, new)

\* the replacements map of StripHTML, in the order of the source text; the
\* em dash is its three UTF-8 bytes
replacements ==
    << [entity |-> <<"&","n","b","s","p",";">>, replacement |-> <<" ">>],
       [entity |-> <<"&","a","m","p",";">>, replacement |-> <<"&">>],
       [entity |-> <<"&","l","t",";">>, replacement |-> <<"<">>],
       [entity |-> <<"&","g","t",";">>, replacement |-> <<">">>],
       [entity |-> <<"&","q","u","o","t",";">>, replacement |-> <<"\"">>],
       [entity |-> <<"&","#","3","9",";">>, replacement |-> <<"'">>],
       [entity |-> <<"&","m","d","a","s","h",";">>, replacement |-> <<"0xE2","0x80","0x94">>] >>

WhiteSpace == {" ", "\t", "\n", "\r"}

\* strings.TrimSpace
RECURSIVE TrimSpace(_)
TrimSpace(s) ==
    IF s = <<>> THEN s
    ELSE IF Head(s) \in WhiteSpace THEN TrimSpace(Tail(s))
    ELSE IF s[Len(s)] \in WhiteSpace THEN TrimSpace(SubSeq(s, 1, Len(s) - 1))
    ELSE s

\* the replacement loop of StripHTML run in a given order of the map's keys
RECURSIVE ReplaceInOrder(_, _)
ReplaceInOrder(output, order) ==
    IF order = <<>> THEN output
    ELSE ReplaceInOrder(ReplaceAll(output, replacements[Head(order)].entity,
                                   replacements[Head(order)].replacement),
                        Tail(order))

\* strutil.StripHTML when the map range visits the keys in the given order
StripHTMLInOrder(input, order) == TrimSpace(ReplaceInOrder(StripTags(input), order))

\* the input strings of FormatFilename and Truncate
StrAlphabet == {"a", "B", "_", " ", ":"}
StrInputs == StringsOver(StrAlphabet, 0, MaxStrLen)

\* the max arguments of Truncate
TruncateLimits == (-1)..(MaxStrLen + 1)

\* the pieces the inputs of StripHTML are made of
HtmlPieces ==
    {<<"&">>, <<"a","m","p",";">>, <<"l","t",";">>, <<"<">>, <<">">>, <<" ">>, <<"b">>}

RECURSIVE Flatten(_)
Flatten(ps) == IF ps = <<>> THEN <<>> ELSE Head(ps) \o Flatten(Tail(ps))

HtmlInputs == {Flatten(ps) : ps \in StringsOver(HtmlPieces, 0, MaxPieces)}

\* FormatFilename(input)
CallFormatFilename ==
    /\ scall.op = "none"
    /\ \E input \in StrInputs :
          /\ scall' = [op |-> "FormatFilename", input |-> input, calls |-> 1]
          /\ sres' = [out |-> FormatFilename(input)]
    /\ UNCHANGED <<saveVars, batchVars, jsonVars, respVars, raceVars, randVars>>

\* FormatFilename called on the result of the first call
CallFormatFilenameAgain ==
    /\ scall.op = "FormatFilename"
    /\ scall.calls = 1
    /\ scall' = [scall EXCEPT !.calls = 2]
    /\ sres' = [out |-> FormatFilename(sres.out), first |-> sres.out]
    /\ UNCHANGED <<saveVars, batchVars, jsonVars, respVars, raceVars, randVars>>

\* Truncate(s, max)
CallTruncate ==
    /\ scall.op = "none"
    /\ \E s \in StrInputs, max \in TruncateLimits :
          /\ scall' = [op |-> "Truncate", s |-> s, max |-> max]
          /\ sres' = Truncate(s, max)
    /\ UNCHANGED <<saveVars, batchVars, jsonVars, respVars, raceVars, randVars>>

\* StripHTML(input) up to the replacement loop: the tags are removed
StripHTMLStart ==
    /\ scall.op = "none"
    /\ \E input \in HtmlInputs :
          scall' = [op |-> "StripHTML", input |-> input, output |-> StripTags(input),
                    remaining |-> 1..Len(replacements), returned |-> FALSE]
    /\ UNCHANGED <<saveVars, batchVars, jsonVars, respVars, sres, raceVars, randVars>>

\* one iteration of for entity, replacement := range replacements: the order
\* of a map range is not specified
StripHTMLReplace ==
    /\ scall.op = "StripHTML"
    /\ \E k \in scall.remaining :
          scall' = [scall EXCEPT
                      !.output = ReplaceAll(@, replacements[k].entity,
                                            replacements[k].replacement),
                      !.remaining = @ \ {k}]
    /\ UNCHANGED <<saveVars, batchVars, jsonVars, respVars, sres, raceVars, randVars>>

\* return strings.TrimSpace(output)
StripHTMLReturn ==
    /\ scall.op = "StripHTML"
    /\ scall.remaining = {}
    /\ ~scall.returned
    /\ scall' = [scall EXCEPT !.returned = TRUE]
    /\ sres' = [out |-> TrimSpace(scall.output)]
    /\ UNCHANGED <<saveVars, batchVars, jsonVars, respVars, raceVars, randVars>>

InitStrutil ==
    /\ file = [Filename |-> <<>>, Size |-> 0, Kind |-> "text", ContentType |-> "text/plain"]
    /\ opts = NilOpts
    /\ pc = "idle"
    /\ dirs = {}
    /\ disk = EmptyDisk
    /\ SaveIdle
    /\ BatchIdle
    /\ JsonIdle
    /\ OthersIdle

NextStrutil ==
    \/ CallFormatFilename
    \/ CallFormatFilenameAgain
    \/ CallTruncate
    \/ StripHTMLStart
    \/ StripHTMLReplace
    \/ StripHTMLReturn

SpecStrutil == InitStrutil /\ [][NextStrutil]_vars

----------------------------------------------------------------------------
(* uploads: two concurrent SaveUploadedFile calls that share destPath *)

\* the two calls
Callers == {1, 2}

\* the i-th chunk of the upload of call p, as a cell of the destination file
Chunk(p, i) == [owner |-> p, idx |-> i]

\* a cell no call has written: the hole left by a write past the end of file
Hole == [owner |-> 0, idx |-> 0]

\* the complete content of the upload of call p
Upload(p) == [i \in 1..procs[p].len |-> Chunk(p, i)]

\* the file after a write of one cell at offset off (cells before it that do
\* not exist read as a hole)
WriteAt(content, off, cell) ==
    [i \in 1..(IF off + 1 > Len(content) THEN off + 1 ELSE Len(content)) |->
        IF i = off + 1 THEN cell
        ELSE IF i <= Len(content) THEN content[i]
        ELSE Hole]

\* the steps of SaveUploadedFile up to the MIME check: the call passes them
RaceValidate(p) ==
    /\ procs[p].pc = "validate"
    /\ procs' = [procs EXCEPT ![p].pc = "create"]
    /\ UNCHANGED shared

\* dst, err := os.Create(destPath): creates the file or truncates it, and
\* opens a descriptor of its own at offset 0
RaceCreate(p) ==
    /\ procs[p].pc = "create"
    /\ shared' = Some(<<>>)
    /\ procs' = [procs EXCEPT ![p].pc = "copy", ![p].off = 0]

\* one Read and Write of io.Copy(dst, src): the chunk goes to the offset of
\* this call's descriptor
RaceCopyChunk(p) ==
    /\ procs[p].pc = "copy"
    /\ procs[p].off < procs[p].len
    /\ shared' = Some(WriteAt(shared[1], procs[p].off, Chunk(p, procs[p].off + 1)))
    /\ procs' = [procs EXCEPT ![p].off = @ + 1]

\* io.Copy reads io.EOF; the descriptor is returned with a nil error
RaceReturn(p) ==
    /\ procs[p].pc = "copy"
    /\ procs[p].off = procs[p].len
    /\ procs' = [procs EXCEPT ![p].pc = "done"]
    /\ UNCHANGED shared

InitRace ==
    /\ file = [Filename |-> <<>>, Size |-> 0, Kind |-> "text", ContentType |-> "text/plain"]
    /\ opts = NilOpts
    /\ pc = "idle"
    /\ dirs = {}
    /\ disk = EmptyDisk
    /\ SaveIdle
    /\ BatchIdle
    /\ JsonIdle
    /\ RespondIdle
    /\ StrutilIdle
    /\ RandomIdle
    /\ shared = None
    /\ procs \in {<<[pc |-> "validate", len |-> n1, off |-> 0],
                    [pc |-> "validate", len |-> n2, off |-> 0]>> :
                      n1 \in 1..MaxChunks, n2 \in 1..MaxChunks}

NextRace ==
    \E p \in Callers :
        /\ \/ RaceValidate(p)
           \/ RaceCreate(p)
           \/ RaceCopyChunk(p)
           \/ RaceReturn(p)
        /\ UNCHANGED <<saveVars, batchVars, jsonVars, respVars, strVars, randVars>>

SpecRace == InitRace /\ [][NextRace]_vars

----------------------------------------------------------------------------
(* uploads.SaveUploadedFile on a filesystem that may hold the destination *)

\* a file a previous upload left at uploads/a, and the directories above it
ExistingPath == Join(UploadsDir, <<"a">>)
ExistingFile == [Kind |-> "old", Len |-> 1]
ExistingDisk == WriteFile(EmptyDisk, ExistingPath, ExistingFile.Kind, ExistingFile.Len)

\* the filesystems a call may start on: empty, or holding uploads/a
InitialFilesystems ==
    {[dirs |-> {}, disk |-> EmptyDisk],
     [dirs |-> Ancestors(UploadsDir), disk |-> ExistingDisk]}

\* one SaveUploadedFile call on either filesystem
InitFrame ==
    /\ file \in [Filename : StringsOver(SaveAlphabet, 1, MaxSaveNameLen),
                 Size : 0..(MaxLimit + 1), Kind : {"text", "bin"},
                 ContentType : {"text/plain"}]
    /\ opts \in {NilOpts} \cup CallerOpts
    /\ pc = "size"
    /\ \E fs \in InitialFilesystems : dirs = fs.dirs /\ disk = fs.disk
    /\ SaveIdle
    /\ BatchIdle
    /\ JsonIdle
    /\ OthersIdle

SpecFrame == InitFrame /\ [][Next]_vars

----------------------------------------------------------------------------
(* random.Generate called on its own *)

ErrLength == "length must be greater than -1"
ErrRandomBytes == "error generating random bytes"

\* the values of a byte
ByteValues == 0..255

\* the lengths asked of Generate
RandLengths == (-1)..MaxRandLen

\* chars[b % byte(charLen)]: the character a random byte becomes
CharOf(b) == Generate(<<b>>)[1]

\* Generate(opts) up to the loop: the length check and rand.Read, which may
\* fail when it has bytes to read
GenerateStart ==
    /\ rcall.op = "none"
    /\ \E n \in RandLengths :
          \/ /\ n < 0
             /\ rcall' = [op |-> "Generate", Length |-> n, pc |-> "returned"]
             /\ rres' = [out |-> <<>>, err |-> ErrLength]
          \/ /\ n > 0
             /\ rcall' = [op |-> "Generate", Length |-> n, pc |-> "returned"]
             /\ rres' = [out |-> <<>>, err |-> ErrRandomBytes]
          \/ /\ n >= 0
             /\ rcall' = [op |-> "Generate", Length |-> n, pc |-> "loop"]
             /\ UNCHANGED rres
    /\ UNCHANGED <<saveVars, batchVars, jsonVars, respVars, strVars, raceVars>>

\* one iteration of for i, b := range bytes: the byte rand.Read put at i is
\* any byte value
GenerateMap ==
    /\ rcall.op = "Generate"
    /\ rcall.pc = "loop"
    /\ Len(rres.out) < rcall.Length
    /\ \E b \in ByteValues : rres' = [rres EXCEPT !.out = Append(@, CharOf(b))]
    /\ UNCHANGED <<saveVars, batchVars, jsonVars, respVars, strVars, raceVars, rcall>>

\* return string(bytes), nil
GenerateReturn ==
    /\ rcall.op = "Generate"
    /\ rcall.pc = "loop"
    /\ Len(rres.out) = rcall.Length
    /\ rcall' = [rcall EXCEPT !.pc = "returned"]
    /\ UNCHANGED <<saveVars, batchVars, jsonVars, respVars, strVars, raceVars, rres>>

InitRandom ==
    /\ file = [Filename |-> <<>>, Size |-> 0, Kind |-> "text", ContentType |-> "text/plain"]
    /\ opts = NilOpts
    /\ pc = "idle"
    /\ dirs = {}
    /\ disk = EmptyDisk
    /\ SaveIdle
    /\ BatchIdle
    /\ JsonIdle
    /\ OthersIdle

NextRandom ==
    \/ GenerateStart
    \/ GenerateMap
    \/ GenerateReturn

SpecRandom == InitRandom /\ [][NextRandom]_vars

----------------------------------------------------------------------------
(* Properties of SaveUploadedFile *)

\* the size limit in force: MaxSize, or 10 MiB for nil options
LimitInForce == IF opts.IsNil THEN 10485760 ELSE opts.MaxSize

\* the allow-list in force
AllowedExtsInForce == EffectiveOpts(opts).AllowedExts

\* the text after the last dot of a filename, empty when it has no dot
TextAfterLastDot(name) ==
    LET dotAt == {i \in 1..Len(name) : name[i] = "."}
    IN IF dotAt = {} THEN <<>>
       ELSE SubSeq(name, (CHOOSE i \in dotAt : \A j \in dotAt : j <= i) + 1, Len(name))

\* the extension equals a list entry, letter case ignored
ExtListed ==
    \E i \in 1..Len(AllowedExtsInForce) :
        ToLower(TextAfterLastDot(file.Filename)) = ToLower(AllowedExtsInForce[i])

SizeAccepted == 0 < file.Size /\ file.Size <= LimitInForce

\* C1: a save succeeds only if 0 < s <= L; s = 0 returns ErrEmptyFile (nil
\* options included), s > L returns ErrFileTooLarge, and both are decided
\* before the extension check, any filesystem access and any read of the stream.
C1_SizeBounds ==
    pc = "done" =>
        /\ (err = "" => SizeAccepted)
        /\ (file.Size = 0 => err = ErrEmptyFile)
        /\ (file.Size > LimitInForce => err = ErrFileTooLarge)
        /\ (err \in {ErrEmptyFile, ErrFileTooLarge} =>
               /\ steps = <<"size">>
               /\ dirs = {}
               /\ disk = EmptyDisk
               /\ srcRead = 0)

\* C1 witness: nil options, a file one byte above the default limit, rejected
C1_Witness ==
    /\ pc = "done"
    /\ opts.IsNil
    /\ file.Size = DefaultMaxSize + 1
    /\ err = ErrFileTooLarge

\* C2 as stated: with a non-empty AllowedExts every file whose extension equals
\* no entry (case-insensitively) is rejected with ErrInvalidFileType; with an
\* empty AllowedExts no file is rejected with ErrInvalidFileType.
C2_Original ==
    pc = "done" =>
        /\ (Len(AllowedExtsInForce) > 0 /\ ~ExtListed => err = ErrInvalidFileType)
        /\ (Len(AllowedExtsInForce) = 0 => err # ErrInvalidFileType)

\* C2 amended: the same for every file that passed the size checks
\* (0 < size <= MaxSize); an empty or oversized file is rejected by the size
\* checks first, with their errors.
C2_ExtensionRejected ==
    pc = "done" =>
        /\ (SizeAccepted /\ Len(AllowedExtsInForce) > 0 /\ ~ExtListed
               => err = ErrInvalidFileType)
        /\ (~SizeAccepted => err # ErrInvalidFileType)
        /\ (Len(AllowedExtsInForce) = 0 => err # ErrInvalidFileType)

\* C2 witness: a file without extension against the list {"a"}, rejected
C2_Witness ==
    /\ pc = "done"
    /\ file.Filename = <<"a">>
    /\ ~opts.IsNil
    /\ opts.AllowedExts = << <<"a">> >>
    /\ err = ErrInvalidFileType

\* the MIME policy applied to the content of the file
MimePolicyAccepts ==
    LET allowed == EffectiveOpts(opts).AllowedMimeTypes
    IN IF allowed = None
       THEN file.Kind \in {"png", "pdf", "text"}
       ELSE \E i \in 1..Len(allowed[1]) :
               HasPrefix(DetectContentType(file.Kind), allowed[1][i])

\* a finished call whose file passed the size checks and whose extension is
\* listed, and which met no failure of the environment
ListedAndFinished ==
    /\ pc = "done"
    /\ SizeAccepted
    /\ Len(AllowedExtsInForce) > 0
    /\ ExtListed
    /\ err \notin EnvErrors

\* C3 as stated: a file of accepted size with a listed extension (any case) is
\* always accepted, whatever its content and whatever AllowedMimeTypes is.
C3_Original == ListedAndFinished => err = ""

\* C3 amended: such a file is never rejected with ErrInvalidFileType; it is
\* accepted exactly when its sniffed content type passes the MIME check, and
\* rejected with the unsupported-MIME-type error otherwise.
C3_ListedExtensionPasses ==
    ListedAndFinished => err = (IF MimePolicyAccepts THEN "" ELSE ErrMime)

\* C3 witness: extension "A" matched against the entry "a", binary content
C3_Witness ==
    /\ ListedAndFinished
    /\ file.Filename = <<".", "A">>
    /\ opts.AllowedExts = << <<"a">> >>
    /\ file.Kind = "bin"
    /\ err = ErrMime

\* C3 witness (upper-case list entry): ".a" against the list {"", "A"}
C3_WitnessUpperEntry ==
    /\ ListedAndFinished
    /\ file.Filename = <<".", "a">>
    /\ opts.AllowedExts = << <<>>, <<"A">> >>
    /\ err = ""

\* C4: a descriptor is returned exactly with a nil error, only once the file
\* exists at SavedPath holding the whole stream; every failure returns nil.
C4_DescriptorOnlyWhenSaved ==
    /\ (pc # "done" => ret = None)
    /\ (pc = "done" => (ret # None <=> err = ""))
    /\ (ret # None =>
           /\ ret[1].SavedPath \in DOMAIN disk
           /\ disk[ret[1].SavedPath] = [Kind |-> file.Kind, Len |-> file.Size]
           /\ srcRead >= file.Size
           /\ steps[Len(steps)] = "copy")

\* C4 witness: a successful save
C4_Witness ==
    /\ pc = "done"
    /\ ret # None
    /\ ret[1].SavedPath \in DOMAIN disk

\* the name the claim C6 gives: sanitize(prefix + base name), extension kept
ClaimedFixedName ==
    FormatFilename(BaseFileName(file.Filename, opts.FilenamePrefix) \o Ext(file.Filename))

\* C6 as stated: without randomization SavedName = sanitize(prefix + base name)
\* with the original extension preserved, so a non-empty prefix shows in it.
C6_FixedNameHasPrefix ==
    (pc = "done" /\ ret # None /\ ~opts.RandomizeFilename) =>
        ret[1].SavedName = ClaimedFixedName

\* the extension as FormatFilename leaves it at the end of a name
SanitizedExt(e) ==
    TrimRight(CollapseUnderscores(StripUnsafe(SpacesToUnderscores(ToLower(e)))), "_")

RandomizedAndSaved == pc = "done" /\ ret # None /\ opts.RandomizeFilename

\* C7 as stated: a randomized SavedName is strictly longer than the sanitized
\* original filename and ends with the original extension.
C7_Original ==
    RandomizedAndSaved =>
        /\ Len(ret[1].SavedName) > Len(FormatFilename(file.Filename))
        /\ HasSuffix(ret[1].SavedName, TextAfterLastDot(file.Filename))

\* C7 amended: a randomized SavedName is strictly longer than the sanitized
\* original filename and ends with a dot followed by the sanitized extension
\* (lower-cased, spaces to underscores, unsafe characters stripped, underscore
\* runs collapsed, trailing underscores trimmed).
C7_RandomizedName ==
    RandomizedAndSaved =>
        /\ Len(ret[1].SavedName) > Len(FormatFilename(file.Filename))
        /\ HasSuffix(ret[1].SavedName,
                     <<".">> \o SanitizedExt(TextAfterLastDot(file.Filename)))

\* C7 witness: an upper-case extension, randomized and saved
C7_Witness ==
    /\ RandomizedAndSaved
    /\ file.Filename = <<"a", ".", "B">>
    /\ opts.FilenamePrefix = <<"p">>

\* C5: whenever an individual save of a batch fails, every file this batch
\* call saved before that failure is removed from disk, for every batch length
\* and every combination of succeeding and failing files.
C5_FailureRemovesSaved ==
    handled # None => \A p \in handled[1] : p \notin DOMAIN disk

----------------------------------------------------------------------------
(* Properties of jsonx *)

\* the stream holds no token: it is empty or all whitespace
NoToken(data) == \A i \in 1..Len(data) : data[i] = " "

\* C8: DecodeJSON classifies every call in this priority: a nil, non-pointer or
\* nil-pointer target gives ErrInvalidTarget whatever the stream (a nil stream
\* included); else an empty, nil or token-less stream gives ErrNoContent; else
\* any other parse failure gives ErrInvalidJSON; else nil with the target
\* populated.  No call ends otherwise.
C8_DecodeClassification ==
    jcall.op = "DecodeJSON" =>
        /\ jres.err \in {ErrInvalidTarget, ErrNoContent, ErrInvalidJSON, ""}
        /\ (jcall.target \in {"nil", "struct", "nilptr"} <=> jres.err = ErrInvalidTarget)
        /\ (jcall.target \in {"ptr-struct", "ptr-any"}
               /\ (jcall.r.kind = "nil" \/ (jcall.r.kind = "string" /\ NoToken(jcall.r.data)))
               => jres.err = ErrNoContent)
        /\ (jres.err = "" <=> jres.populated)

\* C9: EncodeJSON of nil or a nil pointer writes null and returns no error when
\* the merged AllowEmpty is true (as with no options); when it is false it
\* returns ErrNoContent and writes nothing.  A non-null value is never rejected
\* with ErrNoContent.
C9_EncodeNull ==
    jcall.op = "EncodeJSON" =>
        LET allowEmpty == IF jcall.customs = <<>> THEN TRUE ELSE jcall.customs[1].AllowEmpty
            null == jcall.data \in {"nil", "nilptr"}
        IN /\ (null /\ allowEmpty => jres.err = "" /\ jres.written = <<"null", "LF">>)
           /\ (null /\ ~allowEmpty => jres.err = ErrNoContent /\ jres.written = <<>>)
           /\ (~null => jres.err # ErrNoContent)

\* C9 witness: a nil pointer encoded with AllowEmpty false
C9_Witness ==
    /\ jcall.op = "EncodeJSON"
    /\ jcall.data = "nilptr"
    /\ jcall.customs # <<>>
    /\ ~jcall.customs[1].AllowEmpty
    /\ jres.err = ErrNoContent

\* C10: mergeOptions returns the defaults for no caller options; otherwise the
\* statuses and the content type take the caller's value only when set (a
\* negative status falls back to 200 / 400), Headers only when non-nil, and the
\* four booleans always the caller's value; the merged statuses are positive.
C10_MergeOptions ==
    jcall.op = "mergeOptions" =>
        IF jcall.customs = <<>>
        THEN jres.opt = [SuccessStatus |-> 200, ErrorStatus |-> 400,
                         ContentType |-> "application/json", AllowEmpty |-> TRUE,
                         EnforceContentType |-> TRUE, Headers |-> Some({}),
                         IndentResponse |-> FALSE, EscapeHTML |-> FALSE]
        ELSE LET c == jcall.customs[1]
             IN /\ jres.opt.SuccessStatus = (IF c.SuccessStatus > 0 THEN c.SuccessStatus ELSE 200)
                /\ jres.opt.ErrorStatus = (IF c.ErrorStatus > 0 THEN c.ErrorStatus ELSE 400)
                /\ jres.opt.ContentType =
                       (IF c.ContentType # "" THEN c.ContentType ELSE "application/json")
                /\ jres.opt.Headers = (IF c.Headers # None THEN c.Headers ELSE Some({}))
                /\ jres.opt.AllowEmpty = c.AllowEmpty
                /\ jres.opt.EnforceContentType = c.EnforceContentType
                /\ jres.opt.IndentResponse = c.IndentResponse
                /\ jres.opt.EscapeHTML = c.EscapeHTML
                /\ jres.opt.SuccessStatus > 0
                /\ jres.opt.ErrorStatus > 0

\* C10 witness: a caller who sets only a negative SuccessStatus and leaves the
\* booleans unset
C10_Witness ==
    /\ jcall.op = "mergeOptions"
    /\ jcall.customs # <<>>
    /\ jcall.customs[1].SuccessStatus = -1
    /\ ~jcall.customs[1].AllowEmpty
    /\ jres.opt.SuccessStatus = 200
    /\ ~jres.opt.AllowEmpty

----------------------------------------------------------------------------
(* Properties of the jsonx response helpers *)

\* the position of a writer call in the order headers, status, body
CallRank(c) ==
    CASE c[1] = "Header.Set" -> 1
      [] c[1] = "WriteHeader" -> 2
      [] OTHER -> 3

\* the status a helper is to write
HelperStatus ==
    IF jcall.op = "RespondWithError" THEN jcall.opt.ErrorStatus ELSE jcall.opt.SuccessStatus

\* the extra headers whose canonical name is Content-Type
ContentTypeExtras ==
    {h \in jcall.opt.Headers[1] : CanonicalMIMEHeaderKey(h[1]) = "Content-Type"}

\* C11: RespondWithJSON, RespondWithSuccess and RespondWithError act on the
\* response writer in the order Content-Type header, every extra header,
\* status code, body: the first call sets Content-Type to the merged
\* ContentType, no header is set after the status, the status is written once
\* and is the merged SuccessStatus (ErrorStatus for the error helper), no body
\* is written before the status, a helper that returns nil has written the
\* body once, and an extra header named Content-Type replaces the configured
\* one in what is sent.
C11_ResponseOrder ==
    rpc # "idle" =>
        /\ \A i, j \in 1..Len(w.calls) : i < j => CallRank(w.calls[i]) <= CallRank(w.calls[j])
        /\ w.calls # <<>> =>
               w.calls[1] = <<"Header.Set", "Content-Type", jcall.opt.ContentType>>
        /\ Cardinality({i \in 1..Len(w.calls) : w.calls[i][1] = "WriteHeader"}) <= 1
        /\ w.body # <<>> => w.status = Some(HelperStatus)
        /\ rpc \in {"encode", "done"} =>
               /\ w.status = Some(HelperStatus)
               /\ {i \in 1..Len(w.calls) : w.calls[i][1] = "WriteHeader"}
                     = {2 + Cardinality(jcall.opt.Headers[1])}
               /\ \A h \in jcall.opt.Headers[1] :
                     \E i \in 2..(1 + Cardinality(jcall.opt.Headers[1])) :
                        w.calls[i] = <<"Header.Set", h[1], h[2]>>
               /\ \E v \in {h[2] : h \in ContentTypeExtras}
                             \cup (IF ContentTypeExtras = {} THEN {jcall.opt.ContentType}
                                   ELSE {}) :
                     {h \in w.sent[1] : h[1] = "Content-Type"} = {<<"Content-Type", v>>}
        /\ rpc = "done" =>
               /\ jres.err = "" <=> w.body # <<>>
               /\ Cardinality({i \in 1..Len(w.calls) : w.calls[i][1] = "Write"})
                     = (IF jres.err = "" THEN 1 ELSE 0)

\* an error helper has finished: an extra content-type header replaced the
\* configured one, status 404 and the envelope were written in that order
C11_Witness ==
    /\ rpc = "done"
    /\ jcall.op = "RespondWithError"
    /\ jcall.opt.ContentType = "text/json"
    /\ <<"Content-Type", "text/plain">> \in w.sent[1]
    /\ w.status = Some(404)
    /\ Len(w.calls) = 5
    /\ w.calls[4] = <<"WriteHeader", 404>>
    /\ w.calls[5] = <<"Write">>
    /\ w.body # <<>>

\* C12: RespondWithError stores in the envelope's error field: an ErrorDetail
\* as it is, a non-nil *ErrorDetail as the value it points to, a nil
\* *ErrorDetail as "unknown error", any other value implementing error as its
\* message, a string verbatim, a map as it is, an untyped nil as "unknown
\* error", any other value as it is; and that value is what the body carries.
C12_ErrorNormalized ==
    jcall.op = "RespondWithError" =>
        LET e == jcall.errArg
            stored == jcall.resp.Error
        IN /\ e.type = "ErrorDetail" => stored = e
           /\ e.type = "*ErrorDetail" /\ e.val # None =>
                  stored = [type |-> "ErrorDetail", val |-> e.val[1]]
           /\ e.type = "*ErrorDetail" /\ e.val = None =>
                  stored = [type |-> "string", val |-> <<"unknown error">>]
           /\ e.type = "*errors.errorString" =>
                  stored = [type |-> "string", val |-> e.val[1]]
           /\ e.type = "string" => stored = e
           /\ e.type = "map[string]any" => stored = e
           /\ e.type = "nil" => stored = [type |-> "string", val |-> <<"unknown error">>]
           /\ e.type \in {"int", "*int", "chan int"} => stored = e
           /\ stored.type \in {"ErrorDetail", "string"} /\ rpc = "done" =>
                  /\ jres.err = ""
                  /\ w.body[1].error = (IF stored.type = "string"
                                        THEN <<"\"">> \o stored.val \o <<"\"">>
                                        ELSE <<"{">> \o stored.val \o <<"}">>)

\* RespondWithError was given a nil *ErrorDetail and wrote "unknown error"
C12_Witness ==
    /\ rpc = "done"
    /\ jcall.op = "RespondWithError"
    /\ jcall.errArg = [type |-> "*ErrorDetail", val |-> None]
    /\ w.body[1].error = <<"\"", "unknown error", "\"">>

\* C13: every envelope written by RespondWithSuccess or SendSuccess has
\* success = true and error = null, and meta = null when no meta was given;
\* every envelope written by RespondWithError or SendError has success =
\* false, data = null, meta = null and an error that is not null.
C13_EnvelopeFields ==
    rpc = "done" /\ w.body # <<>> =>
        /\ jcall.op = "RespondWithSuccess" =>
              /\ w.body[1].success = TRUE
              /\ w.body[1].error = <<"null">>
              /\ jcall.meta = "nil" => w.body[1].meta = <<"null">>
        /\ jcall.op = "RespondWithError" =>
              /\ w.body[1].success = FALSE
              /\ w.body[1].data = <<"null">>
              /\ w.body[1].meta = <<"null">>
              /\ w.body[1].error # <<"null">>

----------------------------------------------------------------------------
(* Properties of DecodeJSONFromRequest *)

\* the header value holds "application/json" at some position, letter case aside
NamesJson(contentType) ==
    \E i \in 0..(Len(contentType) - 16) :
        \A k \in 1..16 : ToLowerChar(contentType[i + k]) = ApplicationJson[k]

\* whether the call enforces the content type: with no options, or with
\* options that set EnforceContentType
Enforcing == jcall.customs = <<>> \/ jcall.customs[1].EnforceContentType

\* C14: with enforcement on, DecodeJSONFromRequest returns
\* ErrUnsupportedMediaType for every request whose Content-Type does not
\* contain "application/json" (letter case aside), whatever the target, and
\* without reading the body; with enforcement off, or with a matching header,
\* the outcome is that of DecodeJSON on the body.
C14_ContentTypeEnforced ==
    jcall.op = "DecodeJSONFromRequest" =>
        IF Enforcing /\ ~NamesJson(jcall.contentType)
        THEN /\ jres.err = ErrUnsupportedMediaType
             /\ ~jres.bodyRead
             /\ ~jres.populated
        ELSE /\ jres.err = DecodeJSON(jcall.r, jcall.target).err
             /\ jres.populated = DecodeJSON(jcall.r, jcall.target).populated
             /\ jres.err # ErrUnsupportedMediaType

\* a request typed text/plain with a valid JSON body and an invalid target is
\* rejected for its media type, the body unread
C14_Witness ==
    /\ jcall.op = "DecodeJSONFromRequest"
    /\ jcall.customs = <<>>
    /\ jcall.contentType = <<"t","e","x","t","/","p","l","a","i","n">>
    /\ jcall.r = [kind |-> "string", data |-> <<"{", "}">>]
    /\ jcall.target = "nil"
    /\ jres.err = ErrUnsupportedMediaType
    /\ ~jres.bodyRead

\* with enforcement off the same request is decoded
C14_WitnessNotEnforced ==
    /\ jcall.op = "DecodeJSONFromRequest"
    /\ jcall.customs # <<>>
    /\ ~jcall.customs[1].EnforceContentType
    /\ jcall.contentType = <<"t","e","x","t","/","p","l","a","i","n">>
    /\ jcall.target = "ptr-struct"
    /\ jres.err = ""
    /\ jres.bodyRead

----------------------------------------------------------------------------
(* Properties of strutil *)

\* C15: FormatFilename is idempotent: applied to its own result it returns
\* that result, for every input, the empty string and the strings made only
\* of spaces, underscores or stripped characters included.
C15_FormatFilenameIdempotent ==
    scall.op = "FormatFilename" /\ scall.calls = 2 => sres.out = sres.first

\* the second call was made on the result of an input in which stripping a
\* character joined two underscores: "a_:_B" gives "a_b"
C15_Witness ==
    /\ scall.op = "FormatFilename"
    /\ scall.calls = 2
    /\ scall.input = <<"a", "_", ":", "_", "B">>
    /\ sres.first = <<"a", "_", "b">>
    /\ sres.out = <<"a", "_", "b">>

\* the second call was made on the fallback name of an input of spaces
C15_WitnessFallback ==
    /\ scall.op = "FormatFilename"
    /\ scall.calls = 2
    /\ scall.input = <<" ", " ">>
    /\ sres.first = FallbackName
    /\ sres.out = FallbackName

\* C16: Truncate(s, max) never fails: it returns s when len(s) <= max, and
\* otherwise the first max bytes of s followed by "...", for every integer max.
C16_TruncateTotal ==
    scall.op = "Truncate" =>
        /\ ~sres.panic
        /\ Len(scall.s) <= scall.max => sres.out = scall.s
        /\ Len(scall.s) > scall.max =>
               /\ Len(sres.out) = scall.max + 3
               /\ \A i \in 1..scall.max : sres.out[i] = scall.s[i]
               /\ \A i \in (scall.max + 1)..(scall.max + 3) : sres.out[i] = "."

\* C20: StripHTML is deterministic: whatever order the entity substitutions
\* are applied in, the result is the one obtained in the order in which the
\* source lists them, so two evaluations on one input always agree.
C20_StripHTMLDeterministic ==
    scall.op = "StripHTML" /\ scall.returned =>
        sres.out = StripHTMLInOrder(scall.input, <<1, 2, 3, 4, 5, 6, 7>>)

----------------------------------------------------------------------------
(* Properties of concurrent saves *)

\* C17: when two SaveUploadedFile calls that share the destination path have
\* both returned, the file holds the complete content of one of the two
\* uploads, for every interleaving of their create and copy steps.
C17_LastWriterWins ==
    (\A p \in Callers : procs # <<>> /\ procs[p].pc = "done") =>
        \E p \in Callers : shared = Some(Upload(p))

----------------------------------------------------------------------------
(* Properties of the step order of SaveUploadedFile *)

\* the steps of SaveUploadedFile in the order of the source
StepOrder == <<"size", "ext", "mkdir", "name", "open", "read", "seek", "mime",
               "create", "copy">>

\* the step at which each failure is returned
FailingStep(e) ==
    CASE e \in {ErrEmptyFile, ErrFileTooLarge} -> 1
      [] e = ErrInvalidFileType -> 2
      [] e = ErrMkdir -> 3
      [] e = ErrRandom -> 4
      [] e = ErrOpen -> 5
      [] e = ErrRead -> 6
      [] e = ErrSeek -> 7
      [] e = ErrMime -> 8
      [] e = ErrCreate -> 9
      [] OTHER -> 10

\* the filesystem is one the call may have started on
FilesystemUntouched ==
    \E fs \in InitialFilesystems : dirs = fs.dirs /\ disk = fs.disk

\* C18: SaveUploadedFile runs its steps in the fixed order size check,
\* extension check, directory creation, filename derivation, (open,) content
\* sniffing, (seek,) MIME validation, file creation, copy, and stops at the
\* first failing step; a call rejected by the size or extension check leaves
\* the filesystem as it was; a call rejected by the MIME check has created no
\* destination file and left a file already at the destination path as it
\* was, the destination directory having been created.
C18_StepOrderAndFrame ==
    /\ Len(steps) <= Len(StepOrder)
    /\ steps = SubSeq(StepOrder, 1, Len(steps))
    /\ pc = "done" /\ err # "" => Len(steps) = FailingStep(err)
    /\ pc = "done" /\ err = "" => steps = StepOrder
    /\ err \in {ErrEmptyFile, ErrFileTooLarge, ErrInvalidFileType} => FilesystemUntouched
    /\ ~(\E i \in 1..Len(steps) : steps[i] = "mkdir") => FilesystemUntouched
    /\ ~(\E i \in 1..Len(steps) : steps[i] = "create") =>
           \E fs \in InitialFilesystems : disk = fs.disk
    /\ err = ErrMime =>
           /\ \E fs \in InitialFilesystems : disk = fs.disk
           /\ destPath \in DOMAIN disk => destPath = ExistingPath /\ disk[destPath] = ExistingFile
           /\ Ancestors(EffectiveOpts(opts).DestinationDir) \subseteq dirs

\* a call rejected by the MIME check whose destination path held a file: the
\* file is as it was
C18_Witness ==
    /\ pc = "done"
    /\ err = ErrMime
    /\ destPath = ExistingPath
    /\ disk = ExistingDisk
    /\ steps = SubSeq(StepOrder, 1, 8)

\* a call rejected by the MIME check on an empty filesystem: the directory
\* was created, no file was
C18_WitnessDirectoryCreated ==
    /\ pc = "done"
    /\ err = ErrMime
    /\ disk = EmptyDisk
    /\ dirs = Ancestors(UploadsDir)

\* a call rejected by the extension check: nothing was created
C18_WitnessExtension ==
    /\ pc = "done"
    /\ err = ErrInvalidFileType
    /\ dirs = {}
    /\ disk = EmptyDisk
    /\ steps = <<"size", "ext">>

----------------------------------------------------------------------------
(* Properties of SaveMultipleFormFiles, continued *)

\* C19: for a field holding at least one file, SaveMultipleFormFiles never
\* stops at a failure: it does not panic, and when it returns it returns a nil
\* error and one entry per submitted file, in order, nil where the save failed.
C19_BatchRunsToCompletion ==
    Len(files) > 0 =>
        /\ bpc # "panic"
        /\ bpc = "returned" /\ berr # ErrParseForm =>
               /\ berr = ""
               /\ Len(savedFiles) = Len(files)
               /\ \A i \in 1..Len(files) :
                     savedFiles[i] # None =>
                         savedFiles[i][1].OriginalName = files[i].Filename

----------------------------------------------------------------------------
(* Properties of random.Generate *)

\* the byte values that become the character c
Preimages(c) == {b \in ByteValues : CharOf(b) = c}

\* the characters of the alphabet
Alphabet == {chars[i] : i \in 1..Len(chars)}

\* C21: every character Generate returns is drawn uniformly: all 62
\* characters have the same number of preimage bytes under chars[b mod 62];
\* and a length n >= 0 yields n characters of the alphabet (none, without
\* error, for n = 0), a length n < 0 an error.
C21_UniformCharacters ==
    rcall.op = "Generate" /\ rcall.pc = "returned" =>
        /\ rcall.Length < 0 => rres.err # ""
        /\ rres.err = "" =>
               /\ Len(rres.out) = rcall.Length
               /\ \A i \in 1..Len(rres.out) :
                     /\ rres.out[i] \in Alphabet
                     /\ \A c \in Alphabet :
                           Cardinality(Preimages(c)) = Cardinality(Preimages(rres.out[i]))

----------------------------------------------------------------------------
(* Properties of the response helpers, continued *)

\* the call is RespondWithJSON with a nil value or nil pointer and options
\* that leave AllowEmpty false
NullWithoutAllowEmpty ==
    /\ jcall.op = "RespondWithJSON"
    /\ jcall.data \in {"nil", "nilptr"}
    /\ jcall.customs # <<>>
    /\ ~jcall.customs[1].AllowEmpty

\* C22: the response helpers commit the status before they encode:
\* RespondWithJSON with a null value and a merged AllowEmpty of false returns
\* ErrNoContent after the Content-Type header, the extra headers and the
\* success status were written, leaving a committed success response with an
\* empty body; and whenever a helper returns an error the status is committed.
C22_StatusCommittedBeforeEncode ==
    rpc = "done" =>
        /\ NullWithoutAllowEmpty =>
              /\ jres.err = ErrNoContent
              /\ w.status = Some(jcall.opt.SuccessStatus)
              /\ w.body = <<>>
              /\ w.sent # None
              /\ \E v \in {jcall.opt.ContentType} \cup {h[2] : h \in jcall.opt.Headers[1]} :
                    <<"Content-Type", v>> \in w.sent[1]
              /\ \A h \in jcall.opt.Headers[1] :
                    \E v \in {g[2] : g \in jcall.opt.Headers[1]} :
                       <<CanonicalMIMEHeaderKey(h[1]), v>> \in w.sent[1]
              /\ w.calls[Len(w.calls)] = <<"WriteHeader", jcall.opt.SuccessStatus>>
        /\ jres.err # "" =>
              /\ w.status # None
              /\ w.sent # None
              /\ w.calls # <<>>
              /\ w.body = <<>>

\* RespondWithJSON(w, nil, Options{SuccessStatus: 201, ...}) returned
\* ErrNoContent with status 201 and the extra header committed, no body
C22_Witness ==
    /\ rpc = "done"
    /\ NullWithoutAllowEmpty
    /\ jcall.data = "nil"
    /\ jcall.customs[1].SuccessStatus = 201
    /\ jres.err = ErrNoContent
    /\ w.status = Some(201)
    /\ <<"X-Request-Id", "1">> \in w.sent[1]
    /\ w.body = <<>>

----------------------------------------------------------------------------
(* Properties of the destination path *)

\* the call has computed destFileName and destPath
NameDerived ==
    /\ \E i \in 1..Len(steps) : steps[i] = "name"
    /\ ~(pc = "done" /\ err = ErrRandom)

\* C23: the destination path never leaves the destination directory: the
\* sanitized filename holds no path separator, is not empty and is neither
\* "." nor "..", so the joined path is a direct child of DestinationDir.
C23_PathStaysInside ==
    NameDerived =>
        /\ \A i \in 1..Len(destFileName) : destFileName[i] \notin {"/", "\\"}
        /\ destFileName # <<>>
        /\ destFileName # <<".">>
        /\ destFileName # <<".", ".">>
        /\ destPath = EffectiveOpts(opts).DestinationDir \o <<destFileName>>

====
